---- MODULE Spec2Model ----
(***************************************************************************)
(* Model of alleleTools' allele core (src/src/alleleTools/allele.py):      *)
(* the Allele value type with its comparison relation, and the FieldTree   *)
(* prefix tree with its weighted consensus search.                         *)
(*                                                                         *)
(* Python strings are modelled as sequences of one-character strings, so   *)
(* that joining, splitting and the code-point order used by list.sort are  *)
(* computed rather than assumed.  FieldTree nodes live in a heap (a        *)
(* sequence of node records addressed by index), so that two trees can     *)
(* share a node the way two Python objects can.  Supports and weights are  *)
(* integers and min_support is a fraction <<num, den>>; for these values   *)
(* Python's float product and math.ceil are exact.                         *)
(***************************************************************************)
EXTENDS Integers, Sequences, FiniteSets, TLC

VARIABLES
    a,       \* an Allele object
    b,       \* a second Allele object
    heap,    \* the FieldTree nodes: heap[id] = [field, support, children]
    obs,     \* per tree, the log of the observations added to it: <<fields, weight>>
    merges,  \* the number of merge_tree calls that did not fail
    calls,   \* the number of add, add_batch and merge_tree calls made
    parser,  \* the AlleleParser object: its strategies and its gene_family
    selected,\* the profile name of the last set_gene_family that did not raise
    out      \* the last call: its name, its arguments and what it returned

vars == <<a, b, heap, obs, merges, calls, parser, selected, out>>

(***************************************************************************)
(* Bounds                                                                  *)
(***************************************************************************)
MaxFields == 2   \* longest field list of an Allele drawn as input
MaxCalls == 3    \* add / add_batch / merge_tree calls in one run

(***************************************************************************)
(* Strings                                                                 *)
(***************************************************************************)
\* The code point of a character, as Python's string comparison uses it.
Ord(c) ==
    CASE c = " " -> 32 [] c = "(" -> 40 [] c = ")" -> 41
      [] c = "*" -> 42 [] c = "-" -> 45 [] c = "." -> 46
      [] c = "0" -> 48 [] c = "1" -> 49 [] c = "2" -> 50 [] c = "3" -> 51
      [] c = "4" -> 52 [] c = "5" -> 53 [] c = "6" -> 54 [] c = "7" -> 55
      [] c = "8" -> 56 [] c = "9" -> 57 [] c = ":" -> 58
      [] c = "A" -> 65 [] c = "B" -> 66 [] c = "C" -> 67 [] c = "D" -> 68
      [] c = "P" -> 80 [] c = "_" -> 95

\* x < y for two Python strings.
RECURSIVE StrLess(_, _)
StrLess(x, y) ==
    IF y = <<>> THEN FALSE
    ELSE IF x = <<>> THEN TRUE
    ELSE IF Head(x) # Head(y) THEN Ord(Head(x)) < Ord(Head(y))
    ELSE StrLess(Tail(x), Tail(y))

\* sep.join(parts)
RECURSIVE Join(_, _)
Join(parts, sep) ==
    IF parts = <<>> THEN <<>>
    ELSE IF Len(parts) = 1 THEN parts[1]
    ELSE parts[1] \o sep \o Join(Tail(parts), sep)

\* whether s starts with the non-empty string sep
StartsWith(s, sep) ==
    Len(s) >= Len(sep) /\ SubSeq(s, 1, Len(sep)) = sep

\* s.split(sep) for a non-empty sep: cut at every occurrence, left to right.
RECURSIVE SplitFrom(_, _, _)
SplitFrom(s, sep, part) ==
    IF s = <<>> THEN <<part>>
    ELSE IF StartsWith(s, sep)
         THEN <<part>> \o SplitFrom(SubSeq(s, Len(sep) + 1, Len(s)), sep, <<>>)
         ELSE SplitFrom(Tail(s), sep, Append(part, Head(s)))

Split(s, sep) == SplitFrom(s, sep, <<>>)

Min(x, y) == IF x < y THEN x ELSE y

(***************************************************************************)
(* AlleleMatchStatus                                                       *)
(***************************************************************************)
NOT_EQUAL == "NOT_EQUAL"
EQUAL == "EQUAL"
LESS_RESOLUTION == "LESS_RESOLUTION"
MORE_RESOLUTION == "MORE_RESOLUTION"

(***************************************************************************)
(* Allele                                                                  *)
(***************************************************************************)
None == "None"

\* Allele.__init__: stores what it is given; a falsy confidence leaves the
\* attribute unset.
Allele(gene, fields, confidence, gene_delimiter, field_delimiter) ==
    [gene |-> gene, fields |-> fields, confidence |-> confidence,
     gene_delimiter |-> gene_delimiter, field_delimiter |-> field_delimiter]

\* The loop of Allele.compare over zip(self.fields, allele.fields): TRUE when
\* it returns NOT_EQUAL.
RECURSIVE ZipDiffers(_, _)
ZipDiffers(s_fields, a_fields) ==
    IF s_fields = <<>> \/ a_fields = <<>> THEN FALSE
    ELSE IF Head(s_fields) # Head(a_fields) THEN TRUE
    ELSE ZipDiffers(Tail(s_fields), Tail(a_fields))

\* Mutant of compare: the branch for a longer self is missing.
compare_no_less(self, allele) ==
    IF self.gene # allele.gene THEN NOT_EQUAL
    ELSE IF ZipDiffers(self.fields, allele.fields) THEN NOT_EQUAL
    ELSE IF Len(self.fields) < Len(allele.fields) THEN MORE_RESOLUTION
    ELSE EQUAL

\* Mutant of compare: the genes are not looked at.
compare_no_gene(self, allele) ==
    IF ZipDiffers(self.fields, allele.fields) THEN NOT_EQUAL
    ELSE IF Len(self.fields) > Len(allele.fields) THEN LESS_RESOLUTION
    ELSE IF Len(self.fields) < Len(allele.fields) THEN MORE_RESOLUTION
    ELSE EQUAL

\* Mutant of compare: the two resolution results are exchanged.
compare_swapped(self, allele) ==
    IF self.gene # allele.gene THEN NOT_EQUAL
    ELSE IF ZipDiffers(self.fields, allele.fields) THEN NOT_EQUAL
    ELSE IF Len(self.fields) > Len(allele.fields) THEN MORE_RESOLUTION
    ELSE IF Len(self.fields) < Len(allele.fields) THEN LESS_RESOLUTION
    ELSE EQUAL

\* Allele.compare
compare(self, allele) ==
    IF self.gene # allele.gene THEN NOT_EQUAL
    ELSE IF ZipDiffers(self.fields, allele.fields) THEN NOT_EQUAL
    ELSE IF Len(self.fields) > Len(allele.fields) THEN LESS_RESOLUTION
    ELSE IF Len(self.fields) < Len(allele.fields) THEN MORE_RESOLUTION
    ELSE EQUAL

\* Mutant of __str__: the empty allele is rendered like any other.
str_always_joins(self) ==
    self.gene \o self.gene_delimiter \o Join(self.fields, self.field_delimiter)

\* Allele.__str__
__str__(self) ==
    IF self.gene = <<>> /\ self.fields = <<>> THEN <<>>
    ELSE self.gene \o self.gene_delimiter \o Join(self.fields, self.field_delimiter)

\* Mutant of __eq__: any comparable pair counts as equal.
eq_comparable(self, allele_b) == compare(self, allele_b) # NOT_EQUAL

\* Allele.__eq__, for an allele_b that is an Allele
__eq__(self, allele_b) == compare(self, allele_b) = EQUAL

\* Allele.__hash__: hash(str(self)).  The hash of a string stands for the
\* string: equal strings have equal hashes, and two of the short strings of
\* the model that differ have different hashes.
__hash__(self) == __str__(self)

\* The strings float() reads, among the confidences of the model
IsNumber(confidence) == confidence \in {"0.95", "0.5"}

\* Mutant of __init__: fields without a gene are turned down.
init_requires_gene(gene, fields, confidence, gene_delimiter, field_delimiter) ==
    IF gene = <<>> /\ fields # <<>>
    THEN [raised |-> TRUE]
    ELSE IF confidence # None /\ confidence # "" /\ ~IsNumber(confidence)
    THEN [raised |-> TRUE]
    ELSE [raised |-> FALSE,
          self |-> Allele(gene, fields, confidence, gene_delimiter, field_delimiter)]

\* Allele.__init__ as a call: whether it raised (float() raises ValueError
\* on a confidence that is no number) and the object made
__init__(gene, fields, confidence, gene_delimiter, field_delimiter) ==
    IF confidence # None /\ confidence # "" /\ ~IsNumber(confidence)
    THEN [raised |-> TRUE]
    ELSE [raised |-> FALSE,
          self |-> Allele(gene, fields, confidence, gene_delimiter, field_delimiter)]

\* Allele("", []): the allele that stands for "nothing could be read"
EmptyAllele == Allele(<<>>, <<>>, None, <<"*">>, <<":">>)

\* fields[:stop], the slice of a Python list (a negative stop counts from
\* the end)
PySlice(fields, stop) ==
    IF stop >= 0 THEN SubSeq(fields, 1, Min(stop, Len(fields)))
    ELSE SubSeq(fields, 1, Len(fields) + stop)

\* Mutant of truncate: a shortened copy is returned, self is left alone.
truncate_copy(self, new_resolution) ==
    IF new_resolution > Len(self.fields)
    THEN [self |-> self, result |-> EmptyAllele, is_self |-> FALSE]
    ELSE [self |-> self,
          result |-> [self EXCEPT !.fields = PySlice(self.fields, new_resolution)],
          is_self |-> FALSE]

\* Mutant of truncate: new_resolution fields are cut off instead of kept.
truncate_by(self, new_resolution) ==
    IF new_resolution > Len(self.fields)
    THEN [self |-> self, result |-> EmptyAllele, is_self |-> FALSE]
    ELSE LET cut == [self EXCEPT
                        !.fields = PySlice(self.fields, Len(self.fields) - new_resolution)]
         IN  [self |-> cut, result |-> cut, is_self |-> TRUE]

\* Allele.truncate: the object self after the call, the allele returned, and
\* whether the allele returned is the object self
truncate(self, new_resolution) ==
    IF new_resolution > Len(self.fields)
    THEN [self |-> self, result |-> EmptyAllele, is_self |-> FALSE]
    ELSE LET cut == [self EXCEPT !.fields = PySlice(self.fields, new_resolution)]
         IN  [self |-> cut, result |-> cut, is_self |-> TRUE]

\* AlleleParsedTable.normalize_resolution on the entries of the table:
\* alleles.map(lambda x: x.truncate(resolution)) puts what truncate returns
\* in the place of each entry
normalize_resolution(alleles, resolution) ==
    [k \in DOMAIN alleles |-> truncate(alleles[k], resolution).result]

(***************************************************************************)
(* Parsing strategies                                                      *)
(***************************************************************************)
\* None where a string may stand (a group of a match that took no part in
\* it): a value that is no string of characters
NoneStr == <<None>>

\* DelimitedParser.__init__
DelimitedParser(gene_delimiter, field_delimiter) ==
    [type |-> "delimited", gene_delimiter |-> gene_delimiter,
     field_delimiter |-> field_delimiter]

\* Mutant of DelimitedParser.parse: the field part is taken as one field.
DelimitedParser_parse_one_field(self, text) ==
    IF self.gene_delimiter = <<>> THEN [raised |-> TRUE, result |-> EmptyAllele]
    ELSE LET parts == Split(text, self.gene_delimiter)
         IN  IF Len(parts) # 2 THEN [raised |-> FALSE, result |-> EmptyAllele]
             ELSE [raised |-> FALSE,
                   result |-> Allele(parts[1], <<parts[2]>>, None,
                                     self.gene_delimiter, self.field_delimiter)]

\* Mutant of DelimitedParser.parse: only a text with fewer than two parts is
\* turned down.
DelimitedParser_parse_at_least_two(self, text) ==
    IF self.gene_delimiter = <<>> THEN [raised |-> TRUE, result |-> EmptyAllele]
    ELSE LET parts == Split(text, self.gene_delimiter)
         IN  IF Len(parts) < 2 THEN [raised |-> FALSE, result |-> EmptyAllele]
             ELSE IF self.field_delimiter = <<>>
                  THEN [raised |-> TRUE, result |-> EmptyAllele]
             ELSE [raised |-> FALSE,
                   result |-> Allele(parts[1], Split(parts[2], self.field_delimiter),
                                     None, self.gene_delimiter, self.field_delimiter)]

\* DelimitedParser.parse: whether it raised (str.split raises ValueError on
\* an empty separator) and the allele it returns
DelimitedParser_parse(self, text) ==
    IF self.gene_delimiter = <<>> THEN [raised |-> TRUE, result |-> EmptyAllele]
    ELSE LET parts == Split(text, self.gene_delimiter)
         IN  IF Len(parts) # 2 THEN [raised |-> FALSE, result |-> EmptyAllele]
             ELSE IF self.field_delimiter = <<>>
                  THEN [raised |-> TRUE, result |-> EmptyAllele]
             ELSE [raised |-> FALSE,
                   result |-> Allele(parts[1], Split(parts[2], self.field_delimiter),
                                     None, self.gene_delimiter, self.field_delimiter)]

\* RegexParser.__init__
RegexParser(pattern, field_delimiter, gene_delimiter) ==
    [type |-> "regex", pattern |-> pattern, gene_delimiter |-> gene_delimiter,
     field_delimiter |-> field_delimiter]

\* The pattern of the RegexParser documentation:
\* (?:(?P<gene>\w+)\*)?(?P<field1>\d{2})
GeneField1Pattern == "(?:(?P<gene>\\w+)\\*)?(?P<field1>\\d{2})"

\* \d and \w, on the characters of the model
IsDigit(c) == Ord(c) >= 48 /\ Ord(c) <= 57
IsWord(c) == IsDigit(c) \/ (Ord(c) >= 65 /\ Ord(c) <= 90) \/ c = "_"

\* Whether text has two digits at positions i and i + 1
TwoDigitsAt(text, i) ==
    i >= 1 /\ i + 1 <= Len(text) /\ IsDigit(text[i]) /\ IsDigit(text[i + 1])

\* The position after the longest run of \w characters that starts at i
RECURSIVE WordRunEnd(_, _)
WordRunEnd(text, i) ==
    IF i <= Len(text) /\ IsWord(text[i]) THEN WordRunEnd(text, i + 1) ELSE i

\* No match: what pattern.search returns as None
NoMatch == [matched |-> FALSE]

\* The match of GeneField1Pattern that starts at i, with its groupdict.  The
\* optional gene group is tried first: \w+ can only end where its run ends,
\* '*' being no \w character.  Without it the gene group takes no part in
\* the match and its value is None.
MatchAt(text, i) ==
    LET k == WordRunEnd(text, i)
    IN  IF k > i /\ k <= Len(text) /\ text[k] = "*" /\ TwoDigitsAt(text, k + 1)
        THEN [matched |-> TRUE, gene |-> SubSeq(text, i, k - 1),
              field1 |-> SubSeq(text, k + 1, k + 2)]
        ELSE IF TwoDigitsAt(text, i)
        THEN [matched |-> TRUE, gene |-> NoneStr, field1 |-> SubSeq(text, i, i + 1)]
        ELSE NoMatch

\* pattern.search(text): the leftmost match
RECURSIVE SearchFrom(_, _)
SearchFrom(text, i) ==
    IF i > Len(text) THEN NoMatch
    ELSE IF MatchAt(text, i).matched THEN MatchAt(text, i)
    ELSE SearchFrom(text, i + 1)

search(pattern, text) == SearchFrom(text, 1)

\* RegexParser.parse.  The pattern has the groups gene and field1: field1
\* takes part in every match, there is no confidence group, and the gene is
\* the value of its group, None when the group took no part.
RegexParser_parse(self, text) ==
    LET match == search(self.pattern, text)
    IN  IF ~match.matched THEN [raised |-> FALSE, result |-> EmptyAllele]
        ELSE [raised |-> FALSE,
              result |-> Allele(match.gene, <<match.field1>>, None,
                                self.gene_delimiter, self.field_delimiter)]

\* strategy.parse(text), for either kind of strategy
strategy_parse(strategy, text) ==
    IF strategy.type = "delimited" THEN DelimitedParser_parse(strategy, text)
    ELSE RegexParser_parse(strategy, text)

(***************************************************************************)
(* AlleleParser                                                            *)
(***************************************************************************)
\* dict.update: the entries of `other` replace and extend those of `config`
update(config, other) ==
    [name \in DOMAIN config \cup DOMAIN other |->
        IF name \in DOMAIN other THEN other[name] ELSE config[name]]

\* The strategy _build_strategies makes of one profile
build_strategy(config) ==
    IF config.type = "delimited"
    THEN DelimitedParser(config.gene_delimiter, config.field_delimiter)
    ELSE RegexParser(config.pattern,
                     IF "field_delimiter" \in DOMAIN config
                     THEN config.field_delimiter ELSE <<":">>,
                     IF "gene_delimiter" \in DOMAIN config
                     THEN config.gene_delimiter ELSE <<"*">>)

\* AlleleParser._build_strategies: a profile of another type gets no strategy
_build_strategies(config) ==
    [name \in {n \in DOMAIN config : config[n].type \in {"delimited", "regex"}} |->
        build_strategy(config[name])]

\* Mutant of set_gene_family: the name is stored before it is looked up.
set_gene_family_stores_first(self, gene_family) ==
    IF gene_family \notin DOMAIN self.strategies
    THEN [raised |-> TRUE, self |-> [self EXCEPT !.gene_family = gene_family]]
    ELSE [raised |-> FALSE, self |-> [self EXCEPT !.gene_family = gene_family]]

\* AlleleParser.set_gene_family: whether it raised, and the parser after
set_gene_family(self, gene_family) ==
    IF gene_family \notin DOMAIN self.strategies
    THEN [raised |-> TRUE, self |-> self]
    ELSE [raised |-> FALSE, self |-> [self EXCEPT !.gene_family = gene_family]]

\* No AlleleParser object
NoParser == [config |-> <<>>, strategies |-> <<>>, gene_family |-> None]

\* The configuration files: the profiles of the bundled parser_config.json
\* (a pattern read with the default delimiters, and a delimited one) and a
\* custom file that replaces one profile, adds one, and holds one of a type
\* no strategy is built for.
DefaultConfig ==
    [name \in {"hla", "hla_delimited"} |->
        IF name = "hla" THEN [type |-> "regex", pattern |-> GeneField1Pattern]
        ELSE [type |-> "delimited", gene_delimiter |-> <<"*">>,
              field_delimiter |-> <<":">>]]

CustomConfig ==
    [name \in {"hla", "kir", "legacy"} |->
        IF name = "hla"
        THEN [type |-> "regex", pattern |-> GeneField1Pattern,
              field_delimiter |-> <<".">>]
        ELSE IF name = "kir"
        THEN [type |-> "delimited", gene_delimiter |-> <<"_">>,
              field_delimiter |-> <<".">>]
        ELSE [type |-> "table"]]

\* json.load of a configuration file
load(file) == IF file = "parser_config.json" THEN DefaultConfig ELSE CustomConfig

\* AlleleParser.__init__: whether it raised, and the object made
AlleleParser(gene_family, config_file) ==
    LET config_def == load("parser_config.json")
        config == IF config_file # "" THEN update(config_def, load(config_file))
                  ELSE config_def
        made == [config |-> config, strategies |-> _build_strategies(config),
                 gene_family |-> None]
    IN  set_gene_family(made, gene_family)

\* AlleleParser.get_delimiters
get_delimiters(self) ==
    LET strategy == self.strategies[self.gene_family]
    IN  <<strategy.gene_delimiter, strategy.field_delimiter>>

\* AlleleParser.parse
AlleleParser_parse(self, code) ==
    strategy_parse(self.strategies[self.gene_family], code)

(***************************************************************************)
(* Solution and FieldTree                                                  *)
(***************************************************************************)
Solution(allele, support) == [allele |-> allele, support |-> support]

\* FieldTree.__init__
FieldTree(name) == [field |-> name, support |-> 0, children |-> <<>>]

\* Mutant of the search add makes: only the child at position i is compared.
first_child_first_only(h, children, name, i) ==
    IF i > Len(children) THEN 0
    ELSE IF h[children[i]].field = name THEN children[i]
    ELSE 0

\* The first of the nodes `children`, from position i on, whose field is
\* `name`; 0 when there is none.
RECURSIVE first_child(_, _, _, _)
first_child(h, children, name, i) ==
    IF i > Len(children) THEN 0
    ELSE IF h[children[i]].field = name THEN children[i]
    ELSE first_child(h, children, name, i + 1)

\* Mutant of add: the weight is added to the last node of the path only.
RECURSIVE add_leaf_only(_, _, _, _)
add_leaf_only(h, self, fields, weight) ==
    IF Len(fields) = 0 THEN [h EXCEPT ![self].support = @ + weight]
    ELSE LET name == Head(fields)
             overhead == Tail(fields)
             child == first_child(h, h[self].children, name, 1)
         IN  IF child # 0 THEN add_leaf_only(h, child, overhead, weight)
             ELSE LET new_tree == Len(h) + 1
                      h2 == add_leaf_only(Append(h, FieldTree(name)), new_tree,
                                          overhead, weight)
                  IN  [h2 EXCEPT ![self].children = Append(@, new_tree)]

\* FieldTree.add: the heap after self.add(fields, weight)
RECURSIVE add(_, _, _, _)
add(h, self, fields, weight) ==
    LET h1 == [h EXCEPT ![self].support = @ + weight]
    IN  IF Len(fields) = 0 THEN h1
        ELSE LET name == Head(fields)
                 overhead == Tail(fields)
                 child == first_child(h1, h1[self].children, name, 1)
             IN  IF child # 0 THEN add(h1, child, overhead, weight)
                 ELSE LET new_tree == Len(h1) + 1
                          h2 == add(Append(h1, FieldTree(name)), new_tree,
                                    overhead, weight)
                      IN  [h2 EXCEPT ![self].children = Append(@, new_tree)]

\* FieldTree.add_batch: the heap after self.add_batch(batch, weight)
RECURSIVE add_batch(_, _, _, _)
add_batch(h, self, batch, weight) ==
    IF Len(batch) = 0 THEN h
    ELSE add_batch(add(h, self, Head(batch), weight), self, Tail(batch), weight)

\* The dict {child.field: child for child in self.children} looked up at
\* `name`: the last child with that field; 0 when the key is absent.
RECURSIVE dict_lookup(_, _, _, _)
dict_lookup(h, children, name, i) ==
    IF i < 1 THEN 0
    ELSE IF h[children[i]].field = name THEN children[i]
    ELSE dict_lookup(h, children, name, i - 1)

\* FieldTree.merge_tree: whether self.merge_tree(tree) raised, and the heap it
\* leaves.  merge_children is its loop over tree.children from the i-th on,
\* `children` being the nodes the dict was built from.
RECURSIVE merge_tree(_, _, _)
RECURSIVE merge_children(_, _, _, _, _)

\* Mutant of merge_tree's loop: a foreign child that matches a local child
\* is dropped instead of merged into it.
RECURSIVE merge_children_no_recursion(_, _, _, _, _)
merge_children_no_recursion(h, self, tree, children, i) ==
    IF i > Len(h[tree].children) THEN [raised |-> FALSE, heap |-> h]
    ELSE LET t_child == h[tree].children[i]
             mine == dict_lookup(h, children, h[t_child].field, Len(children))
         IN  IF mine = 0
             THEN merge_children_no_recursion(
                      [h EXCEPT ![self].children = Append(@, t_child)],
                      self, tree, children, i + 1)
             ELSE merge_children_no_recursion(h, self, tree, children, i + 1)

\* Mutant of merge_tree's loop: the support of a child self adopts is taken
\* from the foreign node it was a child of.
merge_children_takes_support(h, self, tree, children, i) ==
    IF i > Len(h[tree].children) THEN [raised |-> FALSE, heap |-> h]
    ELSE LET t_child == h[tree].children[i]
             mine == dict_lookup(h, children, h[t_child].field, Len(children))
         IN  IF mine = 0
             THEN merge_children(
                      [h EXCEPT ![self].children = Append(@, t_child),
                                ![tree].support = @ - h[t_child].support],
                      self, tree, children, i + 1)
             ELSE LET r == merge_tree(h, mine, t_child)
                  IN  IF r.raised THEN r
                      ELSE merge_children(r.heap, self, tree, children, i + 1)

merge_children(h, self, tree, children, i) ==
    IF i > Len(h[tree].children) THEN [raised |-> FALSE, heap |-> h]
    ELSE LET t_child == h[tree].children[i]
             mine == dict_lookup(h, children, h[t_child].field, Len(children))
         IN  IF mine = 0
             THEN merge_children(
                      [h EXCEPT ![self].children = Append(@, t_child)],
                      self, tree, children, i + 1)
             ELSE LET r == merge_tree(h, mine, t_child)
                  IN  IF r.raised THEN r
                      ELSE merge_children(r.heap, self, tree, children, i + 1)

\* Mutant of merge_tree: the root's support is added before the fields are
\* compared.
merge_tree_late_assert(h, self, tree) ==
    LET h1 == [h EXCEPT ![self].support = @ + h[tree].support]
    IN  IF h[tree].field # h[self].field THEN [raised |-> TRUE, heap |-> h1]
        ELSE merge_children(h1, self, tree, h1[self].children, 1)

merge_tree(h, self, tree) ==
    IF h[tree].field # h[self].field THEN [raised |-> TRUE, heap |-> h]
    ELSE LET h1 == [h EXCEPT ![self].support = @ + h[tree].support]
         IN  merge_children(h1, self, tree, h1[self].children, 1)

\* FieldTree.__merge_with_current_node__
__merge_with_current_node__(h, self, res) ==
    IF Len(res) = 0 THEN <<Solution(h[self].field, h[self].support)>>
    ELSE [k \in 1..Len(res) |->
            Solution(h[self].field \o <<":">> \o res[k].allele, res[k].support)]

\* FieldTree.__get_consensus__; child_solutions is its loop over
\* self.children from the i-th on.
RECURSIVE __get_consensus__(_, _, _)
RECURSIVE child_solutions(_, _, _, _)
child_solutions(h, self, min_support_number, i) ==
    IF i > Len(h[self].children) THEN <<>>
    ELSE LET child_sol == __get_consensus__(h, h[self].children[i],
                                            min_support_number)
             rest == child_solutions(h, self, min_support_number, i + 1)
         IN  IF child_sol = <<>> THEN rest
             ELSE __merge_with_current_node__(h, self, child_sol) \o rest

\* Mutant of __get_consensus__: a node whose support equals the threshold is
\* pruned.
get_consensus_strict_prune(h, self, min_support_number) ==
    IF h[self].support <= min_support_number THEN <<>>
    ELSE IF Len(h[self].children) <= 0
         THEN <<Solution(h[self].field, h[self].support)>>
    ELSE LET solutions == child_solutions(h, self, min_support_number, 1)
         IN  IF solutions # <<>> THEN solutions
             ELSE <<Solution(h[self].field, h[self].support)>>

\* Mutant of __get_consensus__: a node none of whose children qualifies is
\* not returned itself.
get_consensus_no_fallback(h, self, min_support_number) ==
    IF h[self].support < min_support_number THEN <<>>
    ELSE IF Len(h[self].children) <= 0
         THEN <<Solution(h[self].field, h[self].support)>>
    ELSE child_solutions(h, self, min_support_number, 1)

__get_consensus__(h, self, min_support_number) ==
    IF h[self].support < min_support_number THEN <<>>
    ELSE IF Len(h[self].children) <= 0
         THEN <<Solution(h[self].field, h[self].support)>>
    ELSE LET solutions == child_solutions(h, self, min_support_number, 1)
         IN  IF solutions # <<>> THEN solutions
             ELSE <<Solution(h[self].field, h[self].support)>>

\* solutions.sort(key=lambda sol: sol.support, reverse=True).  list.sort is
\* stable, also when reversed: x goes before the first solution of strictly
\* less support.
RECURSIVE insert_by_support(_, _)
insert_by_support(sorted, x) ==
    IF sorted = <<>> THEN <<x>>
    ELSE IF x.support > Head(sorted).support THEN <<x>> \o sorted
    ELSE <<Head(sorted)>> \o insert_by_support(Tail(sorted), x)

RECURSIVE sort_by_support(_)
sort_by_support(solutions) ==
    IF solutions = <<>> THEN <<>>
    ELSE insert_by_support(
             sort_by_support(SubSeq(solutions, 1, Len(solutions) - 1)),
             solutions[Len(solutions)])

\* solutions.sort(key=lambda sol: sol.allele): x goes before the first
\* solution whose path string is strictly greater.
RECURSIVE insert_by_allele(_, _)
insert_by_allele(sorted, x) ==
    IF sorted = <<>> THEN <<x>>
    ELSE IF StrLess(x.allele, Head(sorted).allele) THEN <<x>> \o sorted
    ELSE <<Head(sorted)>> \o insert_by_allele(Tail(sorted), x)

RECURSIVE sort_by_allele(_)
sort_by_allele(solutions) ==
    IF solutions = <<>> THEN <<>>
    ELSE insert_by_allele(
             sort_by_allele(SubSeq(solutions, 1, Len(solutions) - 1)),
             solutions[Len(solutions)])

\* Mutant of the formatting: a solution of the gene name alone is rendered
\* like any other.
format_allele_bare_gene(solution, gene_delimiter, field_delimiter) ==
    LET nodes == Split(solution.allele, <<":">>)
    IN  __str__(Allele(nodes[1], Tail(nodes), None,
                       gene_delimiter, field_delimiter))

\* FieldTree.__format_solutions_as_alleles__: the two lists it returns
format_allele(solution, gene_delimiter, field_delimiter) ==
    LET nodes == Split(solution.allele, <<":">>)
    IN  IF Len(nodes) <= 1 THEN <<>>
        ELSE __str__(Allele(nodes[1], Tail(nodes), None,
                            gene_delimiter, field_delimiter))

__format_solutions_as_alleles__(solutions, gene_delimiter, field_delimiter) ==
    [alleles |-> [k \in 1..Len(solutions) |->
                    format_allele(solutions[k], gene_delimiter, field_delimiter)],
     supports |-> [k \in 1..Len(solutions) |-> solutions[k].support]]

\* Mutant of the threshold: the product is rounded down.
floor_product(max_support, min_support) ==
    (max_support * min_support[1]) \div min_support[2]

\* math.ceil(max_support * min_support), min_support being num/den
ceil_product(max_support, min_support) ==
    (max_support * min_support[1] + min_support[2] - 1) \div min_support[2]

\* max_support as get_consensus uses it: the root's support when falsy
effective_max_support(h, self, max_support) ==
    IF max_support = 0 THEN h[self].support ELSE max_support

\* Mutant of the selection: the two most supported are not sorted by name.
top_solutions_by_support(solutions) ==
    LET by_support == sort_by_support(solutions)
    IN  SubSeq(by_support, 1, Min(2, Len(by_support)))

\* Mutant of the selection: the first two solutions found, in the order of the
\* children.
top_solutions_unsorted(solutions) ==
    SubSeq(solutions, 1, Min(2, Len(solutions)))

\* The solutions get_consensus keeps: the two most supported, by name
top_solutions(solutions) ==
    LET by_support == sort_by_support(solutions)
    IN  sort_by_allele(SubSeq(by_support, 1, Min(2, Len(by_support))))

\* Mutant of the homozygous adjustment: max_support is not halved.
homozygous_no_half(solutions, max_support) ==
    IF Len(solutions) = 1 /\ solutions[1].support >= max_support
    THEN solutions \o solutions
    ELSE solutions

\* The homozygous adjustment of get_consensus
homozygous(solutions, max_support) ==
    IF Len(solutions) = 1 /\ 2 * solutions[1].support >= max_support
    THEN solutions \o solutions
    ELSE solutions

\* Mutant of get_consensus: the assertion forgets the lower bound.
get_consensus_no_lower_bound(h, self, min_support, gene_delimiter, field_delimiter, max_support) ==
    IF ~(min_support[1] <= min_support[2])
    THEN [raised |-> TRUE, alleles |-> <<>>, supports |-> <<>>, heap |-> h]
    ELSE LET max == effective_max_support(h, self, max_support)
             found == __get_consensus__(h, self, ceil_product(max, min_support))
             lists == __format_solutions_as_alleles__(
                          homozygous(top_solutions(found), max),
                          gene_delimiter, field_delimiter)
         IN  [raised |-> FALSE, alleles |-> lists.alleles,
              supports |-> lists.supports, heap |-> h]

\* Mutant of get_consensus: the children of the node are put in the order of
\* their fields in place, the way the solutions are.
get_consensus_sorts_children(h, self, min_support, gene_delimiter, field_delimiter, max_support) ==
    IF ~(min_support[1] <= min_support[2] /\ min_support[1] >= 0)
    THEN [raised |-> TRUE, alleles |-> <<>>, supports |-> <<>>, heap |-> h]
    ELSE LET max == effective_max_support(h, self, max_support)
             found == __get_consensus__(h, self, ceil_product(max, min_support))
             lists == __format_solutions_as_alleles__(
                          homozygous(top_solutions(found), max),
                          gene_delimiter, field_delimiter)
             kids == h[self].children
             swapped == IF Len(kids) >= 2 /\ StrLess(h[kids[2]].field, h[kids[1]].field)
                        THEN <<kids[2], kids[1]>> \o SubSeq(kids, 3, Len(kids))
                        ELSE kids
         IN  [raised |-> FALSE, alleles |-> lists.alleles,
              supports |-> lists.supports,
              heap |-> [h EXCEPT ![self].children = swapped]]

\* FieldTree.get_consensus: whether it raised, the two lists it returns, and
\* the nodes after the call (it assigns to no attribute of any node; the
\* lists it sorts and doubles are the ones __get_consensus__ built)
get_consensus(h, self, min_support, gene_delimiter, field_delimiter, max_support) ==
    IF ~(min_support[1] <= min_support[2] /\ min_support[1] >= 0)
    THEN [raised |-> TRUE, alleles |-> <<>>, supports |-> <<>>, heap |-> h]
    ELSE LET max == effective_max_support(h, self, max_support)
             found == __get_consensus__(h, self, ceil_product(max, min_support))
             lists == __format_solutions_as_alleles__(
                          homozygous(top_solutions(found), max),
                          gene_delimiter, field_delimiter)
         IN  [raised |-> FALSE, alleles |-> lists.alleles,
              supports |-> lists.supports, heap |-> h]

(***************************************************************************)
(* Inputs of the Allele operations                                         *)
(***************************************************************************)
GeneNames == {<<"A">>, <<"B">>}
FieldNames == {<<"0", "1">>, <<"0", "2">>}
Delimiters == {<<<<"*">>, <<":">>>>, <<<<"_">>, <<".">>>>}
Confidences == {None, "0.95"}

RECURSIVE SeqsUpTo(_, _)
SeqsUpTo(S, n) ==
    IF n = 0 THEN {<<>>}
    ELSE LET shorter == SeqsUpTo(S, n - 1)
         IN shorter \cup {Append(s, x) : s \in shorter, x \in S}

Alleles ==
    {Allele(g, f, c, d[1], d[2]) :
        g \in GeneNames, f \in SeqsUpTo(FieldNames, MaxFields),
        c \in Confidences, d \in Delimiters}

\* What the constructor is given: also no gene, and a confidence that is
\* no number
InitGenes == GeneNames \cup {<<>>}
InitConfidences == Confidences \cup {"high"}

\* The resolutions truncate is asked for: a resolution is a number of
\* fields, from none to one more than the longest allele has.
Resolutions == 0..(MaxFields + 1)

NoCall == [op |-> "none"]

(***************************************************************************)
(* The Allele operations                                                   *)
(***************************************************************************)
InitAllele ==
    /\ a \in Alleles
    /\ b \in Alleles
    /\ heap = <<>>
    /\ obs = <<>>
    /\ merges = 0
    /\ calls = 0
    /\ parser = NoParser
    /\ selected = None
    /\ out = NoCall

\* self.compare(allele) on any two of the objects at hand
CallCompare ==
    \E self \in {a, b}, allele \in {a, b} :
        /\ out' = [op |-> "compare", self |-> self, allele |-> allele,
                   result |-> compare(self, allele)]
        /\ UNCHANGED <<a, b, heap, obs, merges, calls, parser, selected>>

\* self == allele_b
CallEq ==
    \E self \in {a, b}, allele_b \in {a, b} :
        /\ out' = [op |-> "eq", self |-> self, allele |-> allele_b,
                   result |-> __eq__(self, allele_b)]
        /\ UNCHANGED <<a, b, heap, obs, merges, calls, parser, selected>>

\* hash(self), hash(allele_b) and self == allele_b, as a set or a dict
\* evaluates them when it looks for allele_b among its keys
CallHash ==
    \E self \in {a, b}, allele_b \in {a, b} :
        /\ out' = [op |-> "hash", self |-> self, allele |-> allele_b,
                   hashes |-> <<__hash__(self), __hash__(allele_b)>>,
                   result |-> __eq__(self, allele_b)]
        /\ UNCHANGED <<a, b, heap, obs, merges, calls, parser, selected>>

\* a.truncate(new_resolution)
CallTruncate ==
    \E new_resolution \in Resolutions :
        LET r == truncate(a, new_resolution)
        IN  /\ a' = r.self
            /\ out' = [op |-> "truncate", self |-> a,
                       new_resolution |-> new_resolution,
                       result |-> r.result, is_self |-> r.is_self]
            /\ UNCHANGED <<b, heap, obs, merges, calls, parser, selected>>

\* a.truncate(new_resolution).truncate(new_resolution): the second call is
\* made on what the first returned, the object a or a new allele
CallTruncateTwice ==
    \E new_resolution \in Resolutions :
        LET r1 == truncate(a, new_resolution)
            r2 == truncate(r1.result, new_resolution)
        IN  /\ a' = IF r1.is_self THEN r2.self ELSE r1.self
            /\ out' = [op |-> "truncate_twice", self |-> a,
                       new_resolution |-> new_resolution,
                       first |-> r1.result, result |-> r2.result]
            /\ UNCHANGED <<b, heap, obs, merges, calls, parser, selected>>

\* b = Allele(gene, fields, confidence, gene_delimiter, field_delimiter):
\* when the constructor raises, no object is made
CallInit ==
    \E gene \in InitGenes, fields \in SeqsUpTo(FieldNames, MaxFields),
       confidence \in InitConfidences, d \in Delimiters :
        LET r == __init__(gene, fields, confidence, d[1], d[2])
        IN  /\ b' = IF r.raised THEN b ELSE r.self
            /\ out' = [op |-> "__init__", gene |-> gene, fields |-> fields,
                       confidence |-> confidence, raised |-> r.raised]
            /\ UNCHANGED <<a, heap, obs, merges, calls, parser, selected>>

\* str(self) on any of the objects at hand
CallStr ==
    \E self \in {a, b} :
        /\ out' = [op |-> "__str__", self |-> self, result |-> __str__(self)]
        /\ UNCHANGED <<a, b, heap, obs, merges, calls, parser, selected>>

\* table.normalize_resolution(resolution), a and b being the entries of the
\* table
CallNormalizeResolution ==
    \E resolution \in Resolutions :
        LET alleles == normalize_resolution(<<a, b>>, resolution)
        IN  /\ a' = alleles[1]
            /\ b' = alleles[2]
            /\ out' = [op |-> "normalize_resolution", alleles |-> <<a, b>>,
                       resolution |-> resolution]
            /\ UNCHANGED <<heap, obs, merges, calls, parser, selected>>

NextAllele ==
    \/ CallCompare \/ CallEq \/ CallHash \/ CallTruncate \/ CallTruncateTwice
    \/ CallNormalizeResolution

SpecAllele == InitAllele /\ [][NextAllele]_vars

\* Alleles are constructed and rendered, starting from the empty one
InitConstruct ==
    /\ a = EmptyAllele
    /\ b = EmptyAllele
    /\ heap = <<>>
    /\ obs = <<>>
    /\ merges = 0
    /\ calls = 0
    /\ parser = NoParser
    /\ selected = None
    /\ out = NoCall

NextConstruct == CallInit \/ CallStr

SpecConstruct == InitConstruct /\ [][NextConstruct]_vars

(***************************************************************************)
(* Inputs of the FieldTree operations                                      *)
(***************************************************************************)
\* Two trees; tree t has its root at heap[t].

(***************************************************************************)
(* The parsers                                                             *)
(***************************************************************************)
\* The alleles that are rendered and read back: with and without a gene,
\* with a delimiter character inside the gene or inside a field, with an
\* empty field and with no field; rendered with two different characters,
\* with one character for both delimiters, and with a two-character gene
\* delimiter.
ParserGenes == {<<"A">>, <<>>, <<"A", "*">>, <<"A", ":">>}
ParserFields == {<<"0", "1">>, <<>>, <<"0", ":", "1">>}
ParserDelimiters ==
    Delimiters \cup {<<<<"*">>, <<"*">>>>, <<<<"*", "*">>, <<":">>>>}

ParserAlleles ==
    {Allele(g, f, None, d[1], d[2]) :
        g \in ParserGenes, f \in SeqsUpTo(ParserFields, MaxFields),
        d \in ParserDelimiters}

\* The texts given to the parsers: "", "A", "A*", "01", "A01", "A*01",
\* "A*01:02", "A*01*02", "A_01.02"
Texts ==
    {<<>>, <<"A">>, <<"A", "*">>, <<"0", "1">>, <<"A", "0", "1">>, <<"A", "*", "0", "1">>,
     <<"A", "*", "0", "1", ":", "0", "2">>, <<"A", "*", "0", "1", "*", "0", "2">>,
     <<"A", "_", "0", "1", ".", "0", "2">>}

\* The profile names asked for, and the custom configuration files
FamilyNames == {"hla", "hla_delimited", "kir", "legacy", "wrong_parser"}
ConfigFiles == {"", "custom_config.json"}

\* The strategies are used on their own, on an allele at hand and on texts
InitStrategy ==
    /\ a \in ParserAlleles
    /\ b = EmptyAllele
    /\ heap = <<>>
    /\ obs = <<>>
    /\ merges = 0
    /\ calls = 0
    /\ parser = NoParser
    /\ selected = None
    /\ out = NoCall

\* No AlleleParser has been made yet
InitParser ==
    /\ a = EmptyAllele
    /\ b = EmptyAllele
    /\ heap = <<>>
    /\ obs = <<>>
    /\ merges = 0
    /\ calls = 0
    /\ parser = NoParser
    /\ selected = None
    /\ out = NoCall

\* parser = AlleleParser(gene_family, config_file): when the constructor
\* raises, no object is made and the parser at hand stays
CallAlleleParser ==
    \E gene_family \in FamilyNames, config_file \in ConfigFiles :
        LET r == AlleleParser(gene_family, config_file)
        IN  /\ parser' = IF r.raised THEN parser ELSE r.self
            /\ selected' = IF r.raised THEN selected ELSE gene_family
            /\ out' = [op |-> "AlleleParser", gene_family |-> gene_family,
                       config_file |-> config_file, raised |-> r.raised,
                       config |-> r.self.config]
            /\ UNCHANGED <<a, b, heap, obs, merges, calls>>

\* parser.set_gene_family(gene_family)
CallSetGeneFamily ==
    \E gene_family \in FamilyNames :
        LET r == set_gene_family(parser, gene_family)
        IN  /\ parser.gene_family # None
            /\ parser' = r.self
            /\ selected' = IF r.raised THEN selected ELSE gene_family
            /\ out' = [op |-> "set_gene_family", gene_family |-> gene_family,
                       raised |-> r.raised]
            /\ UNCHANGED <<a, b, heap, obs, merges, calls>>

\* parser.get_delimiters()
CallGetDelimiters ==
    /\ parser.gene_family # None
    /\ out' = [op |-> "get_delimiters", result |-> get_delimiters(parser)]
    /\ UNCHANGED <<a, b, heap, obs, merges, calls, parser, selected>>

\* parser.parse(code)
CallParse ==
    \E code \in Texts :
        LET r == AlleleParser_parse(parser, code)
        IN  /\ parser.gene_family # None
            /\ out' = [op |-> "parse", text |-> code, raised |-> r.raised,
                       result |-> r.result]
            /\ UNCHANGED <<a, b, heap, obs, merges, calls, parser, selected>>

\* DelimitedParser(gene_delimiter, field_delimiter).parse(text)
CallDelimitedParse ==
    \E d \in ParserDelimiters, text \in Texts :
        LET self == DelimitedParser(d[1], d[2])
            r == DelimitedParser_parse(self, text)
        IN  /\ out' = [op |-> "DelimitedParser.parse", self |-> self,
                       text |-> text, raised |-> r.raised, result |-> r.result]
            /\ UNCHANGED <<a, b, heap, obs, merges, calls, parser, selected>>

\* RegexParser(pattern, field_delimiter, gene_delimiter).parse(text)
CallRegexParse ==
    \E d \in Delimiters, text \in Texts :
        LET self == RegexParser(GeneField1Pattern, d[2], d[1])
            r == RegexParser_parse(self, text)
        IN  /\ out' = [op |-> "RegexParser.parse", self |-> self,
                       text |-> text, raised |-> r.raised, result |-> r.result]
            /\ UNCHANGED <<a, b, heap, obs, merges, calls, parser, selected>>

\* DelimitedParser(a.gene_delimiter, a.field_delimiter).parse(str(a))
CallRoundTrip ==
    LET self == DelimitedParser(a.gene_delimiter, a.field_delimiter)
        r == DelimitedParser_parse(self, __str__(a))
    IN  /\ out' = [op |-> "round_trip", self |-> a, text |-> __str__(a),
                   raised |-> r.raised, result |-> r.result]
        /\ UNCHANGED <<a, b, heap, obs, merges, calls, parser, selected>>

NextStrategy == CallDelimitedParse \/ CallRegexParse \/ CallRoundTrip

SpecStrategy == InitStrategy /\ [][NextStrategy]_vars

NextParser ==
    CallAlleleParser \/ CallSetGeneFamily \/ CallGetDelimiters \/ CallParse

SpecParser == InitParser /\ [][NextParser]_vars

(***************************************************************************)
(* The trees                                                               *)
(***************************************************************************)
Trees == {1, 2}

GeneA == <<"A">>
GeneB == <<"B">>
GeneC == <<"C">>
GeneDPA1 == <<"D", "P", "A", "1">>

F01 == <<"0", "1">>
F010 == <<"0", "1", "0">>
F02 == <<"0", "2">>
F03 == <<"0", "3">>
F04 == <<"0", "4">>
F07 == <<"0", "7">>
F12 == <<"1", "2">>

\* The root fields of the two trees: the same gene, or a foreign tree of
\* another gene.
TreeGenes == {<<GeneA, GeneA>>, <<GeneC, GeneC>>, <<GeneDPA1, GeneB>>}

\* The observations a tree is given.  Gene A: no field (an unparsed call),
\* one field, two fields, with 01 a proper prefix of 010; the foreign tree
\* gets fewer.  Genes C and DPA1: the calls of test_similar_calls and
\* test_allele_support_homozygous.
FieldLists(self, gene) ==
    IF gene = GeneA
    THEN IF self = 1
         THEN {<<>>, <<F01>>, <<F010>>, <<F01, F01>>, <<F01, F010>>}
         ELSE {<<F01>>, <<F01, F010>>}
    ELSE IF gene = GeneC THEN {<<F07, F01>>, <<F12, F02>>}
    ELSE IF gene = GeneDPA1 THEN {<<F01, F03, F01>>, <<F01, F03, F01, F04>>}
    ELSE {<<F01>>}

Weights(self, gene) == IF gene = GeneA /\ self = 1 THEN {0, 1, 2} ELSE {1}

\* The batches add_batch is given: the empty batch, and the two alleles one
\* algorithm reports for a gene.
Batches(self, gene) ==
    IF self # 1 THEN {}
    ELSE IF gene = GeneA THEN {<<>>, <<<<F01>>, <<F010>>>>}
    ELSE IF gene = GeneC THEN {<<<<F07, F01>>, <<F12, F02>>>>}
    ELSE {<<>>}

\* min_support as <<numerator, denominator>>: 0, 1/4, 3/5, 1, and the two
\* out-of-range values -1/4 and 5/4.
MinSupports == {<<0, 1>>, <<1, 4>>, <<3, 5>>, <<1, 1>>, <<-1, 4>>, <<5, 4>>}

\* max_support: 0 is the default (the root's support)
MaxSupports == {0, 2}

(***************************************************************************)
(* The FieldTree operations                                                *)
(***************************************************************************)
\* A tree is built and then queried (it is rebuilt for every consensus
\* computation): add, add_batch and merge_tree come before get_consensus.
Building == out.op # "get_consensus"

Init ==
    /\ a = Allele(<<>>, <<>>, None, <<"*">>, <<":">>)
    /\ b = a
    /\ \E g \in TreeGenes : heap = <<FieldTree(g[1]), FieldTree(g[2])>>
    /\ obs = <<<<>>, <<>>>>
    /\ merges = 0
    /\ calls = 0
    /\ parser = NoParser
    /\ selected = None
    /\ out = NoCall

\* The observations a batch makes, each with the batch's weight
Observations(batch, weight) == [k \in 1..Len(batch) |-> <<batch[k], weight>>]

\* tree.add(fields, weight)
CallAdd ==
    \E self \in Trees :
        \E fields \in FieldLists(self, heap[self].field), weight \in Weights(self, heap[self].field) :
            /\ Building /\ calls < MaxCalls
            /\ heap' = add(heap, self, fields, weight)
            /\ obs' = [obs EXCEPT ![self] = Append(@, <<fields, weight>>)]
            /\ calls' = calls + 1
            /\ out' = [op |-> "add", self |-> self, fields |-> fields,
                       weight |-> weight]
            /\ UNCHANGED <<a, b, merges, parser, selected>>

\* tree.add_batch(batch, weight)
CallAddBatch ==
    \E self \in Trees :
        \E batch \in Batches(self, heap[self].field), weight \in Weights(2, heap[self].field) :
            /\ Building /\ calls < MaxCalls
            /\ heap' = add_batch(heap, self, batch, weight)
            /\ obs' = [obs EXCEPT ![self] = @ \o Observations(batch, weight)]
            /\ calls' = calls + 1
            /\ out' = [op |-> "add_batch", self |-> self, batch |-> batch,
                       weight |-> weight]
            /\ UNCHANGED <<a, b, merges, parser, selected>>

\* The first tree merges the second: self.merge_tree(tree).  When it does not
\* raise, self holds the observations of both.
CallMergeTree ==
    \E self \in {1}, tree \in {2} :
        LET r == merge_tree(heap, self, tree)
        IN  /\ Building /\ calls < MaxCalls
            /\ heap' = r.heap
            /\ obs' = IF r.raised THEN obs
                      ELSE [obs EXCEPT ![self] = @ \o obs[tree]]
            /\ merges' = IF r.raised THEN merges ELSE merges + 1
            /\ calls' = calls + 1
            /\ out' = [op |-> "merge_tree", self |-> self, tree |-> tree,
                       raised |-> r.raised]
            /\ UNCHANGED <<a, b, parser, selected>>

\* The first tree is queried:
\* self.get_consensus(min_support, gene_delimiter, field_delimiter, max_support)
CallGetConsensus ==
    \E self \in {1}, min_support \in MinSupports, d \in Delimiters, max_support \in MaxSupports :
        LET r == get_consensus(heap, self, min_support, d[1], d[2], max_support)
        IN  /\ Building
            /\ heap' = r.heap
            /\ out' = [op |-> "get_consensus", self |-> self,
                       min_support |-> min_support, gene_delimiter |-> d[1],
                       field_delimiter |-> d[2], max_support |-> max_support,
                       raised |-> r.raised, alleles |-> r.alleles,
                       supports |-> r.supports, again |-> FALSE]
            /\ UNCHANGED <<a, b, obs, merges, calls, parser, selected>>

\* The query is made once more, with the same arguments, on the tree as the
\* query before left it.
CallGetConsensusAgain ==
    /\ out.op = "get_consensus"
    /\ LET r == get_consensus(heap, out.self, out.min_support, out.gene_delimiter,
                              out.field_delimiter, out.max_support)
       IN  /\ heap' = r.heap
           /\ out' = [out EXCEPT !.raised = r.raised, !.alleles = r.alleles,
                                 !.supports = r.supports, !.again = TRUE]
    /\ UNCHANGED <<a, b, obs, merges, calls, parser, selected>>

Next ==
    \/ CallAdd \/ CallAddBatch \/ CallMergeTree
    \/ CallGetConsensus \/ CallGetConsensusAgain

Spec == Init /\ [][Next]_vars

(***************************************************************************)
(* GrouperHLA                                                              *)
(***************************************************************************)
\* AlleleParser("hla").parse(text) as _resolve_ambiguity uses it.  The
\* bundled parser_config.json is not among the sources: the hla profile reads
\* GENE*f1:f2:... into the gene and the fields, rendered with '*' and ':'.
hla_parse(text) == DelimitedParser_parse(DelimitedParser(<<"*">>, <<":">>), text).result

\* The entries of the ordered dict `d` whose key starts with `prefix`
RECURSIVE keys_startswith(_, _)
keys_startswith(d, prefix) ==
    IF d = <<>> THEN <<>>
    ELSE (IF StartsWith(d[1][1], prefix) THEN <<d[1]>> ELSE <<>>)
            \o keys_startswith(Tail(d), prefix)

\* GrouperHLA._resolve_ambiguity.  The set of truncated alleles holds one
\* member for the alleles that are equal and hash alike: the alleles of one
\* parser have the same delimiters.
_resolve_ambiguity(gene, allele_stripped, uniq_groups) ==
    LET allele_p == hla_parse(gene \o <<"*">> \o allele_stripped)
    IN  IF Len(allele_p.fields) <= 1 THEN NoneStr
        ELSE LET groups_p == {hla_parse(gene \o <<"*">> \o group) : group \in uniq_groups}
                 truncated_groups ==
                     {truncate(g, Len(allele_p.fields)).result : g \in groups_p}
             IN  IF Cardinality(truncated_groups) # 1 THEN NoneStr
                 ELSE __str__(CHOOSE t \in truncated_groups : TRUE)

\* GrouperHLA.lookup_partial.  self.index maps a gene to the ordered dict of
\* its reference alleles, each <<allele, group>>; every group of the model
\* is a string.  None is returned as NoneStr.
lookup_partial(self, gene, allele_stripped) ==
    IF gene \notin DOMAIN self.index \/ allele_stripped = NoneStr THEN NoneStr
    ELSE LET gene_ref == self.index[gene]
             partial == keys_startswith(gene_ref, allele_stripped)
             uniq_groups == {partial[k][2] : k \in 1..Len(partial)}
         IN  IF Len(partial) = 0 THEN NoneStr
             ELSE IF Cardinality(uniq_groups) # 1
             THEN _resolve_ambiguity(gene, allele_stripped, uniq_groups)
             ELSE gene \o <<"*">> \o (CHOOSE ret \in uniq_groups : TRUE)

\* The reference alleles of gene A and their groups, in the order of the
\* reference file: two alleles of one group, an allele whose second field
\* has three digits, and two alleles of other groups.
ReferenceAlleles ==
    << <<<<"0", "2", ":", "0", "1", ":", "0", "1">>, <<"0", "2", ":", "0", "1", ":", "0", "1", "G">>>>,
       <<<<"0", "2", ":", "0", "1", ":", "0", "2">>, <<"0", "2", ":", "0", "1", ":", "0", "1", "G">>>>,
       <<<<"0", "2", ":", "0", "1", "0">>, <<"0", "2", ":", "0", "1", "0", "G">>>>,
       <<<<"0", "2", ":", "0", "2", ":", "0", "1">>, <<"0", "2", ":", "0", "2", ":", "0", "1", "G">>>>,
       <<<<"0", "3", ":", "0", "1", ":", "0", "1">>, <<"0", "3", ":", "0", "1", ":", "0", "1", "G">>>> >>

\* The sub-sequences of a sequence, the order kept
RECURSIVE SubSequences(_)
SubSequences(d) ==
    IF d = <<>> THEN {<<>>}
    ELSE LET rest == SubSequences(Tail(d))
         IN  rest \cup {<<Head(d)>> \o r : r \in rest}

\* The alleles asked for: of one field, of two fields, of three fields, and
\* one no reference allele starts with
QueriedAlleles ==
    {<<"0", "2">>, <<"0", "2", ":", "0", "1">>, <<"0", "3">>, <<"0", "2", ":", "0", "1", ":", "0", "1">>, <<"0", "4", ":", "0", "1">>}

InitGroup ==
    /\ a = Allele(<<>>, <<>>, None, <<"*">>, <<":">>)
    /\ b = a
    /\ heap = <<>>
    /\ obs = <<>>
    /\ merges = 0
    /\ calls = 0
    /\ parser = NoParser
    /\ selected = None
    /\ out = NoCall

\* GrouperHLA with an index of gene A: grouper.lookup_partial(gene, allele)
CallLookupPartial ==
    \E d \in SubSequences(ReferenceAlleles), gene \in {GeneA, GeneB},
       allele_stripped \in QueriedAlleles :
        LET self == [index |-> [g \in {GeneA} |-> d]]
        IN  /\ out' = [op |-> "lookup_partial", self |-> self, gene |-> gene,
                       allele_stripped |-> allele_stripped,
                       result |-> lookup_partial(self, gene, allele_stripped)]
            /\ UNCHANGED <<a, b, heap, obs, merges, calls, parser, selected>>

NextGroup == CallLookupPartial

SpecGroup == InitGroup /\ [][NextGroup]_vars

(***************************************************************************)
(* The consensus module of genotype: its own Allele and get_allele_pair    *)
(***************************************************************************)
\* The position after the fields (:\d{2})* that start at i
RECURSIVE FieldRunEnd(_, _)
FieldRunEnd(text, i) ==
    IF i <= Len(text) /\ text[i] = ":" /\ TwoDigitsAt(text, i + 1)
    THEN FieldRunEnd(text, i + 3)
    ELSE i

\* re.search(r"(\w+)\*(\d{2})(:\d{2})*", code) from position i on: group(0)
\* of the leftmost match
RECURSIVE allele_pattern(_, _)
allele_pattern(code, i) ==
    IF i > Len(code) THEN NoMatch
    ELSE LET k == WordRunEnd(code, i)
         IN  IF k > i /\ k <= Len(code) /\ code[k] = "*" /\ TwoDigitsAt(code, k + 1)
             THEN [matched |-> TRUE,
                   group0 |-> SubSeq(code, i, FieldRunEnd(code, k + 3) - 1)]
             ELSE allele_pattern(code, i + 1)

\* The first position from i on where code has the character c; 0 if none
RECURSIVE IndexFrom(_, _, _)
IndexFrom(code, c, i) ==
    IF i > Len(code) THEN 0
    ELSE IF code[i] = c THEN i
    ELSE IndexFrom(code, c, i + 1)

\* re.search(r"\((.*?)\)", code): group(1) of the leftmost match, the text
\* between the first '(' and the first ')' after it
confidence_score(code) ==
    LET open == IndexFrom(code, "(", 1)
        close == IF open = 0 THEN 0 ELSE IndexFrom(code, ")", open + 1)
    IN  IF close = 0 THEN NoMatch
        ELSE [matched |-> TRUE, group1 |-> SubSeq(code, open + 1, close - 1)]

\* float(text) in hundredths, for the scores of the model, which are written
\* d.dd; the empty string raises ValueError
float_hundredths(text) ==
    IF Len(text) = 4 /\ IsDigit(text[1]) /\ text[2] = "." /\ IsDigit(text[3])
       /\ IsDigit(text[4])
    THEN [raised |-> FALSE,
          value |-> 100 * (Ord(text[1]) - 48) + 10 * (Ord(text[3]) - 48)
                        + (Ord(text[4]) - 48)]
    ELSE [raised |-> TRUE, value |-> 0]

\* consensus.Allele.__init__(code): whether it raised, and the object made.
\* has_confidence is hasattr(self, "confidence").
consensus_Allele(code) ==
    LET match == allele_pattern(code, 1)
        score == confidence_score(code)
        number == IF score.matched THEN float_hundredths(score.group1)
                  ELSE [raised |-> FALSE, value |-> 0]
    IN  IF code = <<>> \/ ~match.matched \/ number.raised
        THEN [raised |-> TRUE,
              self |-> [gene |-> <<>>, fields |-> <<>>, has_confidence |-> FALSE,
                        confidence |-> 0]]
        ELSE [raised |-> FALSE,
              self |-> [gene |-> Split(match.group0, <<"*">>)[1],
                        fields |-> Split(Split(match.group0, <<"*">>)[2], <<":">>),
                        has_confidence |-> score.matched,
                        confidence |-> number.value]]

\* consensus.Allele.truncate: the object after the call
consensus_truncate(self, new_resolution) ==
    IF new_resolution > Len(self.fields) THEN self
    ELSE [self EXCEPT !.fields = PySlice(self.fields, new_resolution)]

\* alleles.sort(): x goes before the first string strictly greater
RECURSIVE insert_string(_, _)
insert_string(sorted, x) ==
    IF sorted = <<>> THEN <<x>>
    ELSE IF StrLess(x, Head(sorted)) THEN <<x>> \o sorted
    ELSE <<Head(sorted)>> \o insert_string(Tail(sorted), x)

RECURSIVE sort_strings(_)
sort_strings(alleles) ==
    IF alleles = <<>> THEN <<>>
    ELSE insert_string(sort_strings(SubSeq(alleles, 1, Len(alleles) - 1)),
                       alleles[Len(alleles)])

\* The first loop of get_allele_pair: the strings Allele() raises on are
\* passed over
RECURSIVE parsed_alleles(_)
parsed_alleles(alleles) ==
    IF alleles = <<>> THEN <<>>
    ELSE LET parsed_allele == consensus_Allele(Head(alleles))
         IN  (IF parsed_allele.raised THEN <<>> ELSE <<parsed_allele.self>>)
                \o parsed_alleles(Tail(alleles))

RECURSIVE pairwise_loop(_, _, _)
\* The loop of get_allele_pair over pairwise(parsed_alleles), from the k-th
\* pair on: the value of `pair` when it ends.  pairwise yields nothing for
\* fewer than two alleles, and `pair` is then the empty list; abundance is
\* in hundredths.
pairwise_loop(parsed, k, resolution) ==
    IF Len(parsed) < 2 THEN <<>>
    ELSE IF k > Len(parsed) - 1 THEN <<parsed[Len(parsed) - 1], parsed[Len(parsed)]>>
    ELSE LET pair == <<parsed[k], parsed[k + 1]>>
             abundance ==
                 (IF pair[1].has_confidence THEN pair[1].confidence ELSE 50)
                    + (IF pair[2].has_confidence THEN pair[2].confidence ELSE 50)
             resolution_is_met ==
                 \A n \in 1..2 : Len(pair[n].fields) > resolution
         IN  IF abundance > 90 /\ resolution_is_met THEN pair
             ELSE pairwise_loop(parsed, k + 1, resolution)

\* get_allele_pair(alleles, resolution): the list `alleles` after the call
\* (it is sorted in place) and the list returned.  `pair` has two members or
\* none, so the assertion holds and pair[:2] is pair.
get_allele_pair(alleles, resolution) ==
    LET sorted == sort_strings(alleles)
        pair == pairwise_loop(parsed_alleles(sorted), 1, resolution)
    IN  [alleles |-> sorted,
         result |-> [n \in 1..Len(pair) |-> consensus_truncate(pair[n], resolution)]]

\* The calls of one gene: with the abundance HISAT reports, without it, of
\* one to three fields, and a string that is no allele
PairAlleles ==
    {<<"A", "*", "0", "1", ":", "0", "1", ":", "0", "1", " ", "(", "1", ".", "0", "0", ")">>,
     <<"A", "*", "0", "1", ":", "0", "1", ":", "0", "1", ":", "0", "2", " ", "(", "0", ".", "6", "0", ")">>,
     <<"A", "*", "0", "1", ":", "0", "1", ":", "0", "1", ":", "0", "1", " ", "(", "0", ".", "3", "0", ")">>,
     <<"A", "*", "0", "1", ":", "0", "1">>,
     <<"A", "*", "0", "2">>,
     <<"A">>}

PairResolutions == 1..(MaxFields + 1)

\* The list of calls and the resolution get_allele_pair is given
InitPair ==
    /\ a = Allele(<<>>, <<>>, None, <<"*">>, <<":">>)
    /\ b = a
    /\ heap = <<>>
    /\ obs = <<>>
    /\ merges = 0
    /\ calls = 0
    /\ parser = NoParser
    /\ selected = None
    /\ \E alleles \in SeqsUpTo(PairAlleles, MaxCalls), resolution \in PairResolutions :
          out = [op |-> "input", alleles |-> alleles, resolution |-> resolution]

\* get_allele_pair(alleles, resolution)
CallGetAllelePair ==
    /\ out.op = "input"
    /\ LET r == get_allele_pair(out.alleles, out.resolution)
       IN  out' = [op |-> "get_allele_pair", alleles |-> out.alleles,
                   resolution |-> out.resolution, sorted |-> r.alleles,
                   result |-> r.result]
    /\ UNCHANGED <<a, b, heap, obs, merges, calls, parser, selected>>

NextPair == CallGetAllelePair

SpecPair == InitPair /\ [][NextPair]_vars

(***************************************************************************)
(* Two trees of one gene, built independently and queried alike            *)
(***************************************************************************)
\* The calls of three algorithms for gene A, each a one-field allele with
\* its weight
OrderObservations ==
    {<<<<F01>>, 1>>, <<<<F01>>, 2>>, <<<<F02>>, 1>>, <<<<F02>>, 2>>, <<<<F03>>, 1>>}

OrderMinSupports == {<<0, 1>>, <<1, 4>>, <<1, 1>>}

InitOrder ==
    /\ a = Allele(<<>>, <<>>, None, <<"*">>, <<":">>)
    /\ b = a
    /\ heap = <<FieldTree(GeneA), FieldTree(GeneA)>>
    /\ obs = <<<<>>, <<>>>>
    /\ merges = 0
    /\ calls = 0
    /\ parser = NoParser
    /\ selected = None
    /\ out = NoCall

\* tree.add(fields, weight): the first tree is built, then the second, and
\* both before they are queried
CallAddOrder ==
    \E self \in Trees, o \in OrderObservations :
        /\ out.op # "get_consensus_each"
        /\ self = 1 => obs[2] = <<>>
        /\ Len(obs[self]) < MaxCalls
        /\ heap' = add(heap, self, o[1], o[2])
        /\ obs' = [obs EXCEPT ![self] = Append(@, o)]
        /\ calls' = calls + 1
        /\ out' = [op |-> "add", self |-> self, fields |-> o[1], weight |-> o[2]]
        /\ UNCHANGED <<a, b, merges, parser, selected>>

\* Each of the two trees is queried with the same arguments:
\* tree.get_consensus(min_support)
CallGetConsensusEach ==
    \E min_support \in OrderMinSupports :
        LET r1 == get_consensus(heap, 1, min_support, <<"*">>, <<":">>, 0)
            r2 == get_consensus(r1.heap, 2, min_support, <<"*">>, <<":">>, 0)
        IN  /\ heap' = r2.heap
            /\ out' = [op |-> "get_consensus_each", min_support |-> min_support,
                       alleles |-> <<r1.alleles, r2.alleles>>,
                       supports |-> <<r1.supports, r2.supports>>]
            /\ UNCHANGED <<a, b, obs, merges, calls, parser, selected>>

NextOrder == CallAddOrder \/ CallGetConsensusEach

SpecOrder == InitOrder /\ [][NextOrder]_vars

(***************************************************************************)
(* Claims about Allele                                                     *)
(***************************************************************************)
SharedFieldsAgree(x, y) ==
    \A i \in 1..Min(Len(x.fields), Len(y.fields)) : x.fields[i] = y.fields[i]

\* What compare is said to return, from the genes and the fields alone.
StatedCompare(x, y) ==
    IF x.gene # y.gene \/ ~SharedFieldsAgree(x, y) THEN NOT_EQUAL
    ELSE IF Len(x.fields) > Len(y.fields) THEN LESS_RESOLUTION
    ELSE IF Len(x.fields) < Len(y.fields) THEN MORE_RESOLUTION
    ELSE EQUAL

C2_CompareSymmetry ==
    (out.op = "compare" /\ out.self.gene = out.allele.gene) =>
        /\ out.result = MORE_RESOLUTION
              <=> compare(out.allele, out.self) = LESS_RESOLUTION
        /\ out.result = EQUAL <=> compare(out.allele, out.self) = EQUAL

C2_Witness ==
    /\ out.op = "compare"
    /\ out.self.gene = out.allele.gene
    /\ out.result = MORE_RESOLUTION

\* C3: a == b exactly when a.compare(b) is EQUAL, that is the same gene, as
\* many fields and the same fields; two alleles of different resolution that
\* agree on their shared fields are not equal.
C3_EqIsCompareEqual ==
    out.op = "eq" =>
        /\ out.result <=> compare(out.self, out.allele) = EQUAL
        /\ out.result <=> /\ out.self.gene = out.allele.gene
                          /\ out.self.fields = out.allele.fields
        /\ (/\ Len(out.self.fields) # Len(out.allele.fields)
            /\ SharedFieldsAgree(out.self, out.allele)) => ~out.result

C3_Witness ==
    /\ out.op = "eq"
    /\ out.self.gene = out.allele.gene
    /\ Len(out.self.fields) # Len(out.allele.fields)
    /\ SharedFieldsAgree(out.self, out.allele)
    /\ ~out.result
(***************************************************************************)
(* Claims about FieldTree                                                  *)
(***************************************************************************)
Consensus == out.op = "get_consensus" /\ ~out.raised

\* The threshold of the call in `out`, and the solutions that meet it
CallMaxSupport == effective_max_support(heap, out.self, out.max_support)
CallThreshold == ceil_product(CallMaxSupport, out.min_support)
CallSolutions == __get_consensus__(heap, out.self, CallThreshold)
CallRender(solution) == format_allele(solution, out.gene_delimiter, out.field_delimiter)

DefaultDelimiters == out.gene_delimiter = <<"*">> /\ out.field_delimiter = <<":">>

\* How many of the observations in `log` have the fields `fields`
RECURSIVE CountObs(_, _)
CountObs(log, fields) ==
    IF log = <<>> THEN 0
    ELSE (IF Head(log)[1] = fields THEN 1 ELSE 0) + CountObs(Tail(log), fields)

\* The tree of test_allele_support_homozygous: DPA1 with 01:03:01 once and
\* 01:03:01:04 twice, each with weight 1.
TreeDPA1 ==
    /\ heap[1].field = GeneDPA1
    /\ merges = 0
    /\ Len(obs[1]) = 3
    /\ CountObs(obs[1], <<F01, F03, F01>>) = 1
    /\ CountObs(obs[1], <<F01, F03, F01, F04>>) = 2

DPA1_01_03_01_04 ==
    <<"D", "P", "A", "1", "*", "0", "1", ":", "0", "3", ":", "0", "1", ":", "0", "4">>

\* C4: when exactly one solution meets the threshold ceil(M * min_support),
\* M being max_support or else the root's support, get_consensus lists it
\* twice, with its support twice, if its support is at least M / 2, and once
\* otherwise.  For DPA1 observed as 01:03:01, 01:03:01:04, 01:03:01:04,
\* get_consensus(0.6) returns DPA1*01:03:01:04 in both slots with support 2.
C4_HomozygousBoundary ==
    /\ (Consensus /\ Len(CallSolutions) = 1) =>
          LET s == CallSolutions[1]
          IN  IF 2 * s.support >= CallMaxSupport
              THEN /\ out.alleles = <<CallRender(s), CallRender(s)>>
                   /\ out.supports = <<s.support, s.support>>
              ELSE /\ out.alleles = <<CallRender(s)>>
                   /\ out.supports = <<s.support>>
    /\ (/\ Consensus /\ TreeDPA1 /\ DefaultDelimiters
        /\ out.min_support = <<3, 5>> /\ out.max_support = 0) =>
          /\ out.alleles = <<DPA1_01_03_01_04, DPA1_01_03_01_04>>
          /\ out.supports = <<2, 2>>

C4_Witness ==
    /\ Consensus /\ TreeDPA1 /\ DefaultDelimiters
    /\ out.min_support = <<3, 5>> /\ out.max_support = 0
    /\ Len(CallSolutions) = 1

\* The other branch of C4: one solution, of less than half of max_support
C4_WitnessSingle ==
    /\ Consensus /\ Len(CallSolutions) = 1
    /\ 2 * CallSolutions[1].support < CallMaxSupport
    /\ out.max_support = 0
    /\ Len(out.alleles) = 1 /\ out.alleles[1] # <<>>

\* The entries of the two lists get_consensus returned are solutions that
\* met the threshold, each with its support.
ReturnedAreSolutions ==
    /\ Len(out.alleles) = Len(out.supports)
    /\ Len(out.alleles) <= 2
    /\ \A i \in 1..Len(out.alleles) :
          \E k \in 1..Len(CallSolutions) :
              /\ out.alleles[i] = CallRender(CallSolutions[k])
              /\ out.supports[i] = CallSolutions[k].support

\* No solution that met the threshold and was left out has more support
\* than one that was returned.
MostSupportedKept ==
    \A k \in 1..Len(CallSolutions) :
        (\E i \in 1..Len(out.supports) : out.supports[i] < CallSolutions[k].support)
            => \E j \in 1..Len(out.alleles) :
                   /\ out.alleles[j] = CallRender(CallSolutions[k])
                   /\ out.supports[j] = CallSolutions[k].support

TwoDistinctReturned == Len(out.alleles) = 2 /\ out.alleles[1] # out.alleles[2]

\* C5 as stated: two lists of one length, at most 2, supports[i] the support
\* of alleles[i]; the most supported solutions are kept; two distinct
\* solutions come in ascending order of the allele strings returned.
C5_AscendingAlleleStrings ==
    Consensus =>
        /\ ReturnedAreSolutions
        /\ MostSupportedKept
        /\ TwoDistinctReturned => StrLess(out.alleles[1], out.alleles[2])

\* C5, amended: two distinct solutions come in ascending order of their
\* ':'-joined paths gene:field1:field2..., which is the order of the strings
\* returned when field_delimiter is ':'.
C5_AscendingPaths ==
    Consensus =>
        /\ ReturnedAreSolutions
        /\ MostSupportedKept
        /\ TwoDistinctReturned =>
              /\ \E k1 \in 1..Len(CallSolutions), k2 \in 1..Len(CallSolutions) :
                    /\ out.alleles[1] = CallRender(CallSolutions[k1])
                    /\ out.supports[1] = CallSolutions[k1].support
                    /\ out.alleles[2] = CallRender(CallSolutions[k2])
                    /\ out.supports[2] = CallSolutions[k2].support
                    /\ StrLess(CallSolutions[k1].allele, CallSolutions[k2].allele)
              /\ out.field_delimiter = <<":">>
                    => StrLess(out.alleles[1], out.alleles[2])

\* Two distinct solutions returned against the order of their supports,
\* while a third that met the threshold was left out
C5_Witness ==
    /\ Consensus /\ TwoDistinctReturned
    /\ out.supports[1] < out.supports[2]
    /\ Len(CallSolutions) = 3

RootOnly(t) == heap[t].children = <<>> /\ obs[t] = <<>> /\ heap[t].support = 0

InRange(min_support) == min_support[1] >= 0 /\ min_support[1] <= min_support[2]

\* C6 as stated: a tree with zero total support returns ([], []) for every
\* min_support in [0,1].
C6_ZeroSupportEmpty ==
    (Consensus /\ heap[out.self].support = 0) =>
        out.alleles = <<>> /\ out.supports = <<>>

\* C6, amended: a root-only tree, on which add was never called, returns the
\* empty string in both slots with supports [0, 0] when max_support is left
\* at its default, for every min_support in [0,1].
C6_RootOnlySentinel ==
    (/\ out.op = "get_consensus" /\ RootOnly(out.self)
     /\ InRange(out.min_support) /\ out.max_support = 0) =>
        /\ ~out.raised
        /\ out.alleles = <<<<>>, <<>>>>
        /\ out.supports = <<0, 0>>

C6_Witness ==
    /\ Consensus /\ RootOnly(out.self) /\ out.max_support = 0
    /\ out.min_support = <<1, 1>>
    /\ out.alleles = <<<<>>, <<>>>>

\* The tree of test_similar_calls for gene C: two algorithms, each reporting
\* C*07:01 and C*12:02, every allele added with weight 1.
TreeC ==
    /\ heap[1].field = GeneC
    /\ merges = 0
    /\ Len(obs[1]) = 4
    /\ CountObs(obs[1], <<F07, F01>>) = 2
    /\ CountObs(obs[1], <<F12, F02>>) = 2

C_07_01 == <<"C", "*", "0", "7", ":", "0", "1">>
C_12_02 == <<"C", "*", "1", "2", ":", "0", "2">>

\* C7 as stated: on that tree get_consensus with min_support 0.6 and
\* max_support left at its default returns C*07:01, C*12:02 with supports
\* [2, 2].
C7_DefaultMaxSupport ==
    (/\ Consensus /\ TreeC /\ DefaultDelimiters
     /\ out.min_support = <<3, 5>> /\ out.max_support = 0) =>
        /\ out.alleles = <<C_07_01, C_12_02>>
        /\ out.supports = <<2, 2>>

\* C7, amended: it returns them when max_support is 2, the number of
\* algorithms; with max_support left at its default the threshold is
\* ceil(4 * 0.6) = 3, no allele meets it, and the empty string is returned
\* in both slots with the root's support 4.
C7_MaxSupportTwo ==
    (/\ Consensus /\ TreeC /\ DefaultDelimiters /\ out.min_support = <<3, 5>>) =>
        /\ out.max_support = 2 =>
              /\ out.alleles = <<C_07_01, C_12_02>>
              /\ out.supports = <<2, 2>>
        /\ out.max_support = 0 =>
              /\ out.alleles = <<<<>>, <<>>>>
              /\ out.supports = <<4, 4>>

C7_Witness ==
    /\ Consensus /\ TreeC /\ DefaultDelimiters
    /\ out.min_support = <<3, 5>> /\ out.max_support = 2
    /\ out.alleles = <<C_07_01, C_12_02>>

\* The nodes of the tree at `self`, each with the path of fields that leads
\* to it from the root (the root's own field left out).
RECURSIVE Walk(_, _, _)
RECURSIVE WalkChildren(_, _, _, _)
WalkChildren(h, self, path, i) ==
    IF i > Len(h[self].children) THEN {}
    ELSE Walk(h, h[self].children[i], Append(path, h[h[self].children[i]].field))
            \cup WalkChildren(h, self, path, i + 1)

Walk(h, self, path) == {<<path, self>>} \cup WalkChildren(h, self, path, 1)

IsPrefix(p, s) == Len(p) <= Len(s) /\ SubSeq(s, 1, Len(p)) = p

\* The total weight of the observations of `log` that pass through `path`
RECURSIVE WeightThrough(_, _)
WeightThrough(log, path) ==
    IF log = <<>> THEN 0
    ELSE (IF IsPrefix(path, Head(log)[1]) THEN Head(log)[2] ELSE 0)
            + WeightThrough(Tail(log), path)

Prefixes(s) == {SubSeq(s, 1, n) : n \in 0..Len(s)}

\* C8: after add and add_batch calls alone, with non-negative weights, every
\* node's support is the total weight of the observations that pass through
\* it (the root: of all of them), every observed path has its node, and no
\* child has more support than its parent.
C8_SupportIsWeightThrough ==
    merges = 0 =>
        \A t \in Trees :
            /\ \A n \in Walk(heap, t, <<>>) :
                  /\ heap[n[2]].support = WeightThrough(obs[t], n[1])
                  /\ \A i \in 1..Len(heap[n[2]].children) :
                        heap[heap[n[2]].children[i]].support <= heap[n[2]].support
            /\ \A k \in 1..Len(obs[t]) : \A p \in Prefixes(obs[t][k][1]) :
                  \E n \in Walk(heap, t, <<>>) : n[1] = p

\* A batch was added, and a node two fields deep has less support than the
\* root
C8_Witness ==
    /\ merges = 0
    /\ out.op = "add_batch" /\ out.batch # <<>>
    /\ Len(obs[1]) >= 3
    /\ \E n \in Walk(heap, 1, <<>>) :
          Len(n[1]) = 2 /\ heap[n[2]].support < heap[1].support

\* The set of <<path, support>> of the tree at `self`
PathSupports(h, self) == {<<n[1], h[n[2]].support>> : n \in Walk(h, self, <<>>)}

\* A single tree named `name`, built by add from the observations of `log`
RECURSIVE BuildFrom(_, _)
BuildFrom(h, log) ==
    IF log = <<>> THEN h
    ELSE BuildFrom(add(h, 1, Head(log)[1], Head(log)[2]), Tail(log))

SingleTree(name, log) == BuildFrom(<<FieldTree(name)>>, log)

\* C9: two trees of one root field, each built by add calls: after
\* T1.merge_tree(T2), T1 has on every path the support that a single tree
\* built from the observations of both has, and no other path.
C9_MergeIsUnion ==
    (out.op = "merge_tree" /\ ~out.raised /\ merges = 1) =>
        PathSupports(heap, out.self)
            = PathSupports(SingleTree(heap[out.self].field, obs[out.self]), 1)

\* The two trees had a first field in common, so that a foreign child was
\* merged into a local one, and the foreign one had children of its own.
C9_Witness ==
    /\ out.op = "merge_tree" /\ ~out.raised /\ merges = 1
    /\ \E i \in 1..Len(heap[1].children), j \in 1..Len(heap[2].children) :
          /\ heap[1].children[i] # heap[2].children[j]
          /\ heap[heap[1].children[i]].field = heap[heap[2].children[j]].field
          /\ heap[heap[2].children[j]].children # <<>>

\* C10: merge_tree with a tree of another root field raises, and leaves self
\* as it was: no support and no child of any node is modified.
C10_MismatchRaisesUnchanged ==
    [][out'.op = "merge_tree" =>
          /\ out'.raised <=> heap[out'.self].field # heap[out'.tree].field
          /\ out'.raised => heap' = heap]_vars

C10_Witness ==
    /\ out.op = "merge_tree" /\ out.raised
    /\ heap[1].children # <<>>
    /\ heap[2].support > 0

(***************************************************************************)
(* C11: get_consensus raises (its assertion fails) exactly when            *)
(* min_support is below 0 or above 1, so 0 and 1 themselves are accepted,  *)
(* and a call that raises leaves every node of the tree as it was.         *)
(***************************************************************************)
OutOfRange(min_support) ==
    min_support[1] < 0 \/ min_support[1] > min_support[2]

C11_OutOfRangeRaises ==
    [][out'.op = "get_consensus"
        => /\ out'.raised <=> OutOfRange(out'.min_support)
           /\ out'.raised => heap' = heap]_vars

\* a built tree was queried with min_support 5/4 and the call raised
C11_Witness ==
    /\ out.op = "get_consensus"
    /\ out.raised
    /\ out.min_support = <<5, 4>>
    /\ heap[out.self].children # <<>>

(***************************************************************************)
(* Claims about truncate, rendering and construction                       *)
(***************************************************************************)
\* the first n of the fields
FirstFields(fields, n) == [k \in 1..n |-> fields[k]]

(***************************************************************************)
(* C12: a.truncate(n) with n <= len(a) shortens a.fields in place to its   *)
(* first n fields and returns a itself; with n > len(a) it returns a new   *)
(* empty allele (gene '', no fields) and leaves a's gene and fields as     *)
(* they were.                                                              *)
(***************************************************************************)
C12_TruncateInPlaceOrSentinel ==
    out.op = "truncate" =>
        IF out.new_resolution <= Len(out.self.fields)
        THEN /\ a.fields = FirstFields(out.self.fields, out.new_resolution)
             /\ a.gene = out.self.gene
             /\ out.is_self
             /\ out.result = a
        ELSE /\ ~out.is_self
             /\ out.result.gene = <<>>
             /\ out.result.fields = <<>>
             /\ a = out.self

\* a two-field allele was cut to one field
C12_Witness ==
    /\ out.op = "truncate"
    /\ Len(out.self.fields) = 2
    /\ out.new_resolution = 1
    /\ Len(a.fields) = 1

\* a one-field allele was asked for two fields
C12_WitnessOverflow ==
    /\ out.op = "truncate"
    /\ Len(out.self.fields) = 1
    /\ out.new_resolution = 2
    /\ ~out.is_self

(***************************************************************************)
(* Claims about the parsers                                                *)
(***************************************************************************)
\* whether the string s holds the non-empty string sep somewhere
Contains(s, sep) ==
    \E i \in 1..Len(s) : StartsWith(SubSeq(s, i, Len(s)), sep)

\* the allele is not the empty one (gene '' and no fields)
NonEmpty(allele) == ~(allele.gene = <<>> /\ allele.fields = <<>>)

\* the parsed allele is equal to the rendered one: same gene, same fields
ReadBack ==
    /\ ~out.raised
    /\ __eq__(out.result, out.self)
    /\ out.result.gene = out.self.gene
    /\ out.result.fields = out.self.fields

(***************************************************************************)
(* C13 as stated: for any non-empty allele a built from (gene, fields),    *)
(* parsing str(a) with a DelimitedParser that uses a's gene and field      *)
(* delimiters yields an allele equal to a (same gene, same fields).        *)
(***************************************************************************)
C13_RoundTripAny ==
    out.op = "round_trip" /\ NonEmpty(out.self) => ReadBack

\* The alleles whose rendering can be read back: at least one field, two
\* different delimiter characters, no gene delimiter inside the gene, and
\* neither delimiter inside a field.
DelimiterFree(allele) ==
    /\ Len(allele.fields) >= 1
    /\ Len(allele.gene_delimiter) = 1
    /\ Len(allele.field_delimiter) = 1
    /\ allele.gene_delimiter # allele.field_delimiter
    /\ ~Contains(allele.gene, allele.gene_delimiter)
    /\ \A k \in 1..Len(allele.fields) :
          /\ ~Contains(allele.fields[k], allele.gene_delimiter)
          /\ ~Contains(allele.fields[k], allele.field_delimiter)

(***************************************************************************)
(* C13 amended: for any allele a with at least one field, rendered with    *)
(* two different single-character delimiters, whose gene does not contain  *)
(* the gene delimiter and whose fields contain neither delimiter, parsing  *)
(* str(a) with a DelimitedParser that uses a's delimiters yields an allele *)
(* equal to a (same gene, same fields).                                    *)
(***************************************************************************)
C13_RoundTripDelimiterFree ==
    out.op = "round_trip" /\ DelimiterFree(out.self) => ReadBack

\* A_01.01 was rendered and read back
C13_Witness ==
    /\ out.op = "round_trip"
    /\ DelimiterFree(out.self)
    /\ out.text = <<"A", "_", "0", "1", ".", "0", "1">>
    /\ out.result.fields = <<<<"0", "1">>, <<"0", "1">>>>

\* How many times the non-empty string sep is found in s, reading from the
\* left and going on after each find
RECURSIVE Occurrences(_, _)
Occurrences(s, sep) ==
    IF Len(s) < Len(sep) THEN 0
    ELSE IF StartsWith(s, sep)
         THEN 1 + Occurrences(SubSeq(s, Len(sep) + 1, Len(s)), sep)
         ELSE Occurrences(Tail(s), sep)

\* the call returned the empty allele and did not raise
SoftFailure ==
    /\ ~out.raised
    /\ out.result.gene = <<>>
    /\ out.result.fields = <<>>

(***************************************************************************)
(* C14: parse failures are soft.  DelimitedParser.parse returns the empty  *)
(* allele without raising for every text that does not hold the gene       *)
(* delimiter exactly once (absent, more than once, empty text), and        *)
(* RegexParser.parse does so for every text its pattern does not match     *)
(* (for the documented pattern: every text without two digits in a row).   *)
(***************************************************************************)
C14_SoftParseFailure ==
    /\ out.op = "DelimitedParser.parse"
          /\ Occurrences(out.text, out.self.gene_delimiter) # 1
       => SoftFailure
    /\ out.op = "RegexParser.parse"
          /\ ~(\E i \in 1..Len(out.text) : TwoDigitsAt(out.text, i))
       => SoftFailure

\* "A*01*02" was given to the parser of '*' and ':'
C14_Witness ==
    /\ out.op = "DelimitedParser.parse"
    /\ out.self.gene_delimiter = <<"*">>
    /\ out.text = <<"A", "*", "0", "1", "*", "0", "2">>
    /\ SoftFailure

\* "A*" was given to the RegexParser
C14_WitnessRegex ==
    /\ out.op = "RegexParser.parse"
    /\ out.text = <<"A", "*">>
    /\ SoftFailure

\* The fields joined by sep, put together from the last field backwards
RECURSIVE JoinedFromEnd(_, _)
JoinedFromEnd(fields, sep) ==
    IF fields = <<>> THEN <<>>
    ELSE IF Len(fields) = 1 THEN fields[1]
    ELSE JoinedFromEnd(SubSeq(fields, 1, Len(fields) - 1), sep)
             \o sep \o fields[Len(fields)]

(***************************************************************************)
(* C15: str(a) is gene + gene_delimiter + the fields joined by             *)
(* field_delimiter for every allele a, except that the allele with empty   *)
(* gene and no fields renders as the empty string; it never raises.        *)
(***************************************************************************)
C15_Rendering ==
    out.op = "__str__" =>
        out.result =
            IF out.self.gene = <<>> /\ out.self.fields = <<>> THEN <<>>
            ELSE out.self.gene \o out.self.gene_delimiter
                     \o JoinedFromEnd(out.self.fields, out.self.field_delimiter)

\* a two-field allele was rendered with '_' and '.'
C15_Witness ==
    /\ out.op = "__str__"
    /\ Len(out.self.fields) = 2
    /\ out.self.gene_delimiter = <<"_">>
    /\ out.result = <<"A", "_", "0", "1", ".", "0", "2">>

\* the empty allele was rendered
C15_WitnessEmpty ==
    /\ out.op = "__str__"
    /\ out.self.gene = <<>>
    /\ out.self.fields = <<>>
    /\ out.result = <<>>

(***************************************************************************)
(* C16: set_gene_family(name) raises for every name that is not a          *)
(* configured profile and leaves the active profile as it was;             *)
(* constructing a parser with such a name raises too and makes no parser;  *)
(* and after any sequence of set_gene_family calls, parse and              *)
(* get_delimiters use the strategy of the profile that was set last        *)
(* without raising.                                                        *)
(***************************************************************************)
C16_ProfileSelection ==
    [][/\ out'.op = "set_gene_family" /\ out'.gene_family \notin DOMAIN parser.config
          => out'.raised /\ parser' = parser
       /\ out'.op = "AlleleParser" /\ out'.gene_family \notin DOMAIN out'.config
          => out'.raised /\ parser' = parser
       /\ out'.op = "parse"
          => /\ out'.raised
                = strategy_parse(parser'.strategies[selected'], out'.text).raised
             /\ out'.result
                = strategy_parse(parser'.strategies[selected'], out'.text).result
       /\ out'.op = "get_delimiters"
          => out'.result = <<parser'.strategies[selected'].gene_delimiter,
                             parser'.strategies[selected'].field_delimiter>>]_vars

\* the parser was on the profile kir when wrong_parser was asked for
C16_Witness ==
    /\ out.op = "set_gene_family"
    /\ out.gene_family = "wrong_parser"
    /\ out.raised
    /\ parser.gene_family = "kir"
    /\ selected = "kir"

\* a text was parsed on the profile set after the parser was made on another
C16_WitnessParse ==
    /\ out.op = "parse"
    /\ selected = "hla_delimited"
    /\ "kir" \in DOMAIN parser.config
    /\ out.result.fields = <<<<"0", "1">>, <<"0", "2">>>>

\* the constructor was given fields and no gene, and a confidence float()
\* reads or none at all
FieldsWithoutGene ==
    /\ out.op = "__init__"
    /\ out.gene = <<>>
    /\ out.fields # <<>>
    /\ out.confidence \in {None, "0.95"}

(***************************************************************************)
(* C17 as stated: constructing an Allele from a non-empty list of fields   *)
(* without a gene (empty gene) is rejected with an error instead of        *)
(* producing an allele.                                                    *)
(***************************************************************************)
C17_FieldsWithoutGeneRejected ==
    FieldsWithoutGene => out.raised

(***************************************************************************)
(* C17 amended: constructing an Allele from a non-empty list of fields     *)
(* without a gene is not rejected: the constructor validates nothing and   *)
(* produces an allele with gene '' and the fields given.                   *)
(***************************************************************************)
C17_FieldsWithoutGeneStored ==
    FieldsWithoutGene =>
        /\ ~out.raised
        /\ b.gene = <<>>
        /\ b.fields = out.fields

\* an allele of two fields and no gene was made
C17_Witness ==
    /\ FieldsWithoutGene
    /\ Len(out.fields) = 2
    /\ b.gene = <<>>
    /\ Len(b.fields) = 2

\* the step is a get_consensus call with the arguments of the call before it
SameQuery ==
    /\ out.op = "get_consensus"
    /\ out'.op = "get_consensus"
    /\ out'.self = out.self
    /\ out'.min_support = out.min_support
    /\ out'.gene_delimiter = out.gene_delimiter
    /\ out'.field_delimiter = out.field_delimiter
    /\ out'.max_support = out.max_support

C19_TruncateIdempotent ==
    out.op = "truncate_twice" /\ out.new_resolution <= Len(out.self.fields)
        => /\ out.result.fields = truncate(out.self, out.new_resolution).result.fields
           /\ out.result.fields = FirstFields(out.self.fields, out.new_resolution)
           /\ a.fields = out.result.fields

\* a two-field allele was cut to one field twice
C19_Witness ==
    /\ out.op = "truncate_twice"
    /\ Len(out.self.fields) = 2
    /\ out.new_resolution = 1
    /\ Len(out.result.fields) = 1

(***************************************************************************)
(* C20: when the root meets the threshold and no child of the root does,   *)
(* the only solution is the gene name, and get_consensus reports it as     *)
(* the empty string, never as the gene name or the gene name with a        *)
(* delimiter, together with the root's support.                            *)
(***************************************************************************)
GeneOnly ==
    /\ Consensus
    /\ heap[out.self].support >= CallThreshold
    /\ \A k \in 1..Len(heap[out.self].children) :
          heap[heap[out.self].children[k]].support < CallThreshold

C20_GeneOnlyIsEmptyString ==
    GeneOnly =>
        /\ Len(out.alleles) \in {1, 2}
        /\ \A k \in 1..Len(out.alleles) :
              /\ out.alleles[k] = <<>>
              /\ out.supports[k] = heap[out.self].support

\* the root of a tree with children met a threshold that no child met
C20_Witness ==
    /\ GeneOnly
    /\ heap[out.self].children # <<>>
    /\ heap[out.self].support >= 2
    /\ out.alleles = <<<<>>, <<>>>>

(***************************************************************************)
(* C21: truncate makes no change when new_resolution is greater than the   *)
(* allele's resolution, so normalize_resolution(r) keeps every entry that  *)
(* has fewer than r fields with its gene and its fields.                   *)
(***************************************************************************)
C21_NormalizeKeepsShorter ==
    out.op = "normalize_resolution" =>
        /\ Len(out.alleles[1].fields) < out.resolution
           => a.gene = out.alleles[1].gene /\ a.fields = out.alleles[1].fields
        /\ Len(out.alleles[2].fields) < out.resolution
           => b.gene = out.alleles[2].gene /\ b.fields = out.alleles[2].fields

\* compare was called on two alleles of one gene whose shared fields agree
SameGeneSharedFields ==
    /\ out.op = "compare"
    /\ out.self.gene = out.allele.gene
    /\ SharedFieldsAgree(out.self, out.allele)

RECURSIVE Supported(_, _, _, _)
RECURSIVE SupportedChildren(_, _, _, _, _)
SupportedChildren(h, self, path, t, i) ==
    IF i > Len(h[self].children) THEN {}
    ELSE Supported(h, h[self].children[i],
                   Append(path, h[h[self].children[i]].field), t)
            \cup SupportedChildren(h, self, path, t, i + 1)

Supported(h, self, path, t) ==
    IF h[self].support < t THEN {}
    ELSE {<<path, self>>} \cup SupportedChildren(h, self, path, t, 1)

\* Those of them that have no child of support >= t
SupportedEnds(h, self, t) ==
    {n \in Supported(h, self, <<>>, t) :
        \A i \in 1..Len(h[n[2]].children) : h[h[n[2]].children[i]].support < t}

\* The solution that stands for the node n of the tree at `self`
PathSolution(h, self, n) ==
    Solution(Join(<<h[self].field>> \o n[1], <<":">>), h[n[2]].support)

(***************************************************************************)
(* C23: with threshold t = ceil(max_support * min_support), max_support    *)
(* being the root's support when it is not supplied or 0, the solutions    *)
(* get_consensus finds before it selects the top two are exactly the paths *)
(* from the root whose every node has support >= t and whose last node has *)
(* no child of support >= t, each with the support of its last node; a     *)
(* root of support below t gives no solution.                              *)
(***************************************************************************)
C23_SolutionsAreSupportedEnds ==
    Consensus =>
        LET ends == SupportedEnds(heap, out.self, CallThreshold)
        IN  /\ {CallSolutions[k] : k \in 1..Len(CallSolutions)}
                    = {PathSolution(heap, out.self, n) : n \in ends}
            /\ Len(CallSolutions) = Cardinality(ends)
            /\ heap[out.self].support < CallThreshold => CallSolutions = <<>>

\* A query with a positive threshold where a node below the root that has
\* children, none of them supported enough, is returned itself, next to
\* another solution
C23_Witness ==
    /\ Consensus
    /\ CallThreshold >= 1
    /\ Len(CallSolutions) >= 2
    /\ \E n \in SupportedEnds(heap, out.self, CallThreshold) :
          /\ Len(n[1]) >= 1
          /\ Len(heap[n[2]].children) >= 1

\* A query whose threshold the root does not reach
C23_WitnessBelow ==
    /\ Consensus
    /\ heap[out.self].support >= 1
    /\ heap[out.self].support < CallThreshold
    /\ CallSolutions = <<>>

\* The fields of the children of a node are all different
UniqueChildren(h, node) ==
    \A i, j \in 1..Len(h[node].children) :
        h[h[node].children[i]].field = h[h[node].children[j]].field => i = j

(***************************************************************************)
(* C24: after any sequence of add, add_batch and merge_tree calls on trees *)
(* that started empty, no node has two children with the same field.       *)
(***************************************************************************)
C24_ChildrenUniqueByField ==
    \A node \in 1..Len(heap) : UniqueChildren(heap, node)

\* After a merge that went through, an add gave the merging tree a node with
\* two children, one of them a node of the merged tree
C24_Witness ==
    /\ merges >= 1
    /\ out.op = "add" /\ out.self = 1
    /\ \E n \in Walk(heap, 1, <<>>), m \in Walk(heap, 2, <<>>) :
          /\ Len(heap[n[2]].children) >= 2
          /\ \E i \in 1..Len(heap[n[2]].children) : heap[n[2]].children[i] = m[2]

\* How many times the observation x is in `log`
RECURSIVE Times(_, _)
Times(log, x) ==
    IF log = <<>> THEN 0
    ELSE (IF Head(log) = x THEN 1 ELSE 0) + Times(Tail(log), x)

\* The two trees were given the same multiset of weighted observations, and
\* each was queried with the same arguments
SameObservationsQueried ==
    /\ out.op = "get_consensus_each"
    /\ Len(obs[1]) = Len(obs[2])
    /\ \A k \in 1..Len(obs[1]) : Times(obs[1], obs[1][k]) = Times(obs[2], obs[1][k])

\* The solutions of the first tree at the threshold of the query, by support
RankedSolutions ==
    sort_by_support(__get_consensus__(heap, 1,
                        ceil_product(heap[1].support, out.min_support)))

\* A solution left out has the support of the least supported one kept
TieAtTheCut ==
    /\ Len(RankedSolutions) >= 3
    /\ RankedSolutions[2].support = RankedSolutions[3].support

(***************************************************************************)
(* C25 as stated: two trees for the same gene built from the same          *)
(* observations in different orders return the same alleles and supports   *)
(* from get_consensus with the same arguments, including when three or     *)
(* more solutions tie in support.                                          *)
(***************************************************************************)
C25_OrderIndependent ==
    SameObservationsQueried =>
        /\ out.alleles[1] = out.alleles[2]
        /\ out.supports[1] = out.supports[2]

(***************************************************************************)
(* C25 amended: two trees for the same gene built from the same            *)
(* observations in different orders return the same alleles and supports   *)
(* from get_consensus with the same arguments, unless a solution beyond    *)
(* the two most supported ties in support with the second of them.         *)
(***************************************************************************)
C25_OrderIndependentUnlessTie ==
    SameObservationsQueried /\ ~TieAtTheCut =>
        /\ out.alleles[1] = out.alleles[2]
        /\ out.supports[1] = out.supports[2]

\* Three solutions, the third below the second, found in trees that were
\* given the observations in different orders
C25_Witness ==
    /\ SameObservationsQueried
    /\ obs[1] # obs[2]
    /\ Len(RankedSolutions) = 3
    /\ RankedSolutions[2].support > RankedSolutions[3].support
    /\ Len(out.alleles[1]) = 2

(***************************************************************************)
(* C26: hashing is consistent with equality: for all alleles a and b,      *)
(* a == b implies hash(a) == hash(b), also when a and b have the same gene *)
(* and fields but different gene or field delimiters.                      *)
(***************************************************************************)
C26_HashFollowsEquality ==
    out.op = "hash" /\ out.result => out.hashes[1] = out.hashes[2]

\* The nodes of the tree t
Nodes(h, t) == {n[2] : n \in Walk(h, t, <<>>)}

\* The step leaves the nodes `nodes` as they are
Untouched(nodes) == \A n \in nodes : heap'[n] = heap[n]

(***************************************************************************)
(* C27 as stated: merge_tree does not modify the foreign tree, and after   *)
(* self.merge_tree(other) any later add call on self leaves the support    *)
(* and children of every node of other unchanged.                          *)
(***************************************************************************)
C27_TreesStayIndependent ==
    [][/\ out'.op = "merge_tree" => Untouched(Nodes(heap, 2))
       /\ merges >= 1 /\ out'.op = "add" /\ out'.self = 1
          => Untouched(Nodes(heap, 2))]_vars

(***************************************************************************)
(* C27 amended: merge_tree does not modify a foreign tree that shares no   *)
(* node with self, but self adopts the foreign children it has no match    *)
(* for: after self.merge_tree(other), a later add call on self leaves the  *)
(* support and children of every node of other unchanged except the nodes  *)
(* that are nodes of self too.                                             *)
(***************************************************************************)
C27_OnlySharedNodesChange ==
    [][/\ out'.op = "merge_tree" /\ Nodes(heap, 1) \cap Nodes(heap, 2) = {}
          => Untouched(Nodes(heap, 2))
       /\ merges >= 1 /\ out'.op = "add" /\ out'.self = 1
          => Untouched(Nodes(heap, 2) \ Nodes(heap, 1))]_vars

\* After a merge, an add on the merging tree gave a node of the merged tree
\* more support than the observations of the merged tree account for
C27_Witness ==
    /\ merges = 1
    /\ out.op = "add" /\ out.self = 1
    /\ \E n \in Walk(heap, 2, <<>>) :
          /\ n[2] \in Nodes(heap, 1)
          /\ heap[n[2]].support > WeightThrough(obs[2], n[1])

\* The text of the RegexParser.parse call matches the pattern without its
\* gene group taking part
MatchedWithoutGene ==
    /\ out.op = "RegexParser.parse"
    /\ search(out.self.pattern, out.text).matched
    /\ search(out.self.pattern, out.text).gene = NoneStr

(***************************************************************************)
(* C28: RegexParser.parse always returns an allele whose gene is a string: *)
(* when the text matches but the optional gene group of the pattern took   *)
(* no part in the match, the gene of the allele is the empty string.       *)
(***************************************************************************)
C28_GeneIsAString ==
    /\ out.op = "RegexParser.parse" => out.result.gene # NoneStr
    /\ MatchedWithoutGene => out.result.gene = <<>>

\* The fields of the reference allele `key` begin with the fields of `query`
ExtendsByField(key, query) == IsPrefix(Split(query, <<":">>), Split(key, <<":">>))

\* The entries of the ordered dict `d` whose allele extends `query` field by
\* field
RECURSIVE ExtendingEntries(_, _)
ExtendingEntries(d, query) ==
    IF d = <<>> THEN <<>>
    ELSE (IF ExtendsByField(d[1][1], query) THEN <<d[1]>> ELSE <<>>)
            \o ExtendingEntries(Tail(d), query)

(***************************************************************************)
(* C29: lookup_partial takes into account only the reference alleles that  *)
(* extend the queried allele field by field: the group it returns is the   *)
(* one it returns when the reference alleles that do not extend the query  *)
(* field by field (query 02:01, reference 02:010) are taken out of the     *)
(* index.                                                                  *)
(***************************************************************************)
C29_OnlyFieldExtensionsCount ==
    out.op = "lookup_partial" /\ out.gene \in DOMAIN out.self.index =>
        out.result =
            lookup_partial(
                [index |-> [g \in DOMAIN out.self.index |->
                              ExtendingEntries(out.self.index[g], out.allele_stripped)]],
                out.gene, out.allele_stripped)

\* get_allele_pair was called with a non-empty list of strings that can all
\* be parsed
ParseableCall ==
    /\ out.op = "get_allele_pair"
    /\ out.alleles # <<>>
    /\ \A k \in 1..Len(out.alleles) : ~consensus_Allele(out.alleles[k]).raised

(***************************************************************************)
(* C30: for every non-empty list of parseable allele strings,              *)
(* get_allele_pair(alleles, resolution) returns two Allele objects, never  *)
(* more, each with exactly `resolution` fields.                            *)
(***************************************************************************)
C30_TwoAllelesOfTheResolution ==
    ParseableCall =>
        /\ Len(out.result) = 2
        /\ \A n \in 1..Len(out.result) : Len(out.result[n].fields) = out.resolution
====
